---- MODULE Spec2Model ----
(***************************************************************************)
(* OGTT-DM Risk Stratifier (src/src/app/page.tsx): the App component as a  *)
(* state machine.  The state is the component's useState cells (the raw    *)
(* text of every numeric input, the selects, the toggles and the baseline  *)
(* slot); the actions are the setters and the two baseline handlers; every *)
(* derived value (clampNum results, bmi, ogttIndication, metabolicSyndrome,*)
(* indices, risk, step4, comparison) is an operator over the state, as     *)
(* the useMemo cells recompute them on every render.                       *)
(*                                                                         *)
(* Numbers.  A JavaScript value that the code treats as "number or         *)
(* undefined" is a record [k, n, d]: k = "num" is the finite rational n/d  *)
(* in lowest terms (d > 0), k = "NaN", "Infinity", "-Infinity" are the     *)
(* non-finite doubles and k = "undefined" is the missing value.  Finite    *)
(* arithmetic is exact (no binary rounding); Math.sqrt is taken to whole-  *)
(* number precision, zero exactly for a zero radicand.                     *)
(***************************************************************************)
EXTENDS Integers, Sequences, FiniteSets, TLC

\* ------------------------------------------------------------------ numbers

Abs(x) == IF x < 0 THEN -x ELSE x

Sign(x) == IF x < 0 THEN -1 ELSE IF x > 0 THEN 1 ELSE 0

\* The arithmetic operators take their arguments by value: each argument is
\* evaluated once (bound as u1, u2, u3) and the -V operator works on the values.
RECURSIVE GcdV(_, _)
GcdV(a, b) == IF b = 0 THEN a ELSE (CHOOSE res \in {GcdV(u1, u2) : u1 \in {b}, u2 \in {a % b}} : TRUE)

Gcd(a, b) == (CHOOSE res \in {GcdV(u1, u2) : u1 \in {a}, u2 \in {b}} : TRUE)

undefined == [k |-> "undefined", n |-> 0, d |-> 1]

NaN == [k |-> "NaN", n |-> 0, d |-> 1]

\* +Infinity (s = 1) or -Infinity (s = -1)
Inf(s) == [k |-> IF s < 0 THEN "-Infinity" ELSE "Infinity", n |-> 0, d |-> 1]

RatV(a, b) ==
    LET g == GcdV(Abs(a), Abs(b))
        s == IF b < 0 THEN -1 ELSE 1
    IN  [k |-> "num", n |-> (s * a) \div g, d |-> (s * b) \div g]

\* the finite number a/b (b # 0), in lowest terms
Rat(a, b) == (CHOOSE res \in {RatV(u1, u2) : u1 \in {a}, u2 \in {b}} : TRUE)

Num(a) == [k |-> "num", n |-> a, d |-> 1]

IsUndefined(x) == x.k = "undefined"

\* Number.isFinite
IsFinite(x) == x.k = "num"

IsInf(x) == x.k \in {"Infinity", "-Infinity"}

\* NaN, or undefined (which arithmetic and comparisons convert to NaN)
IsNaN(x) == x.k \in {"NaN", "undefined"}

\* sign of a number that is not NaN
SignOf(x) == IF x.k = "Infinity" THEN 1 ELSE IF x.k = "-Infinity" THEN -1 ELSE Sign(x.n)

AddV(a, b) ==
    IF IsNaN(a) \/ IsNaN(b) THEN NaN
    ELSE IF IsInf(a) /\ IsInf(b) THEN (IF a.k = b.k THEN a ELSE NaN)
    ELSE IF IsInf(a) THEN a
    ELSE IF IsInf(b) THEN b
    ELSE LET g == GcdV(a.d, b.d)
         IN  Rat(a.n * (b.d \div g) + b.n * (a.d \div g), (a.d \div g) * b.d)

\* a + b on numbers (IEEE: Infinity + -Infinity and anything with NaN is NaN)
Add(a, b) == (CHOOSE res \in {AddV(u1, u2) : u1 \in {a}, u2 \in {b}} : TRUE)

NegV(a) ==
    IF IsNaN(a) THEN NaN
    ELSE IF IsInf(a) THEN Inf(-SignOf(a))
    ELSE [k |-> "num", n |-> -a.n, d |-> a.d]

\* -a on numbers
Neg(a) == (CHOOSE res \in {NegV(u1) : u1 \in {a}} : TRUE)

Sub(a, b) == Add(a, Neg(b))

MulV(a, b) ==
    IF IsNaN(a) \/ IsNaN(b) THEN NaN
    ELSE IF IsInf(a) \/ IsInf(b)
         THEN (IF SignOf(a) * SignOf(b) = 0 THEN NaN ELSE Inf(SignOf(a) * SignOf(b)))
    ELSE LET g1 == GcdV(Abs(a.n), b.d)
             g2 == GcdV(Abs(b.n), a.d)
         IN  [k |-> "num", n |-> (a.n \div g1) * (b.n \div g2),
                           d |-> (a.d \div g2) * (b.d \div g1)]

\* a * b on numbers (IEEE: 0 * Infinity is NaN)
Mul(a, b) == (CHOOSE res \in {MulV(u1, u2) : u1 \in {a}, u2 \in {b}} : TRUE)

DivV(a, b) ==
    IF IsNaN(a) \/ IsNaN(b) THEN NaN
    ELSE IF IsInf(a) THEN (IF IsInf(b) THEN NaN
                           ELSE Inf(SignOf(a) * (IF SignOf(b) < 0 THEN -1 ELSE 1)))
    ELSE IF IsInf(b) THEN Num(0)
    ELSE IF b.n = 0 THEN (IF a.n = 0 THEN NaN ELSE Inf(SignOf(a)))
    ELSE Mul(a, Rat(b.d, b.n))

\* a / b on numbers (IEEE: x/0 is +-Infinity, 0/0 and Infinity/Infinity are NaN)
Div(a, b) == (CHOOSE res \in {DivV(u1, u2) : u1 \in {a}, u2 \in {b}} : TRUE)

CmpV(a, b) ==
    IF IsNaN(a) \/ IsNaN(b) THEN 2
    ELSE IF IsInf(a) \/ IsInf(b)
         THEN (IF a.k = b.k THEN 0
               ELSE IF a.k = "-Infinity" \/ b.k = "Infinity" THEN -1 ELSE 1)
    ELSE Sign(a.n * b.d - b.n * a.d)

\* -1, 0, 1 for a < b, a = b, a > b; 2 when a or b is NaN (every comparison false)
Cmp(a, b) == (CHOOSE res \in {CmpV(u1, u2) : u1 \in {a}, u2 \in {b}} : TRUE)

Lt(a, b) == Cmp(a, b) = -1

Le(a, b) == Cmp(a, b) \in {-1, 0}

Gt(a, b) == Cmp(a, b) = 1

Ge(a, b) == Cmp(a, b) \in {0, 1}

\* a === b on numbers
Eq(a, b) == Cmp(a, b) = 0

MathMinV(a, b) == IF IsNaN(a) \/ IsNaN(b) THEN NaN ELSE IF Le(a, b) THEN a ELSE b

MathMaxV(a, b) == IF IsNaN(a) \/ IsNaN(b) THEN NaN ELSE IF Ge(a, b) THEN a ELSE b

\* Math.min / Math.max of two numbers (NaN if either is NaN)
MathMin(a, b) == (CHOOSE res \in {MathMinV(u1, u2) : u1 \in {a}, u2 \in {b}} : TRUE)

MathMax(a, b) == (CHOOSE res \in {MathMaxV(u1, u2) : u1 \in {a}, u2 \in {b}} : TRUE)

\* largest r in lo..hi with r * r <= x, for x >= 1 and lo * lo <= x
RECURSIVE ISqrtFrom(_, _, _)
ISqrtFrom(x, lo, hi) ==
    IF lo >= hi THEN lo
    ELSE IF (lo + hi + 1) \div 2 <= x \div ((lo + hi + 1) \div 2)
    THEN (CHOOSE res \in {ISqrtFrom(u1, u2, u3) : u1 \in {x}, u2 \in {(lo + hi + 1) \div 2}, u3 \in {hi}} : TRUE)
    ELSE (CHOOSE res \in {ISqrtFrom(u1, u2, u3) : u1 \in {x}, u2 \in {lo}, u3 \in {(lo + hi + 1) \div 2 - 1}} : TRUE)

ISqrt(x) == IF x = 0 THEN 0 ELSE (CHOOSE res \in {ISqrtFrom(u1, u2, u3) : u1 \in {x}, u2 \in {1}, u3 \in {IF x < 46340 THEN x ELSE 46340}} : TRUE)

sqrtV(x) ==
    IF IsNaN(x) \/ x.k = "-Infinity" THEN NaN
    ELSE IF x.k = "Infinity" THEN x
    ELSE IF x.n < 0 THEN NaN
    ELSE IF x.n = 0 THEN Num(0)
    ELSE IF x.n >= x.d THEN Num(ISqrt(x.n \div x.d))
    ELSE Rat(1, ISqrt(x.d \div x.n))

\* Math.sqrt, to whole-number precision above 1 and to a unit fraction below 1:
\* zero exactly when x is zero, NaN for a negative x
sqrt(x) == (CHOOSE res \in {sqrtV(u1) : u1 \in {x}} : TRUE)

\* ------------------------------------------------- text to number (Number(v))

\* The text of an input is a sequence of one-character strings.
DigitChars == <<"0", "1", "2", "3", "4", "5", "6", "7", "8", "9">>

IsDigit(c) == \E i \in 1..10 : DigitChars[i] = c

DigitVal(c) == (CHOOSE i \in 1..10 : DigitChars[i] = c) - 1

IsWhiteSpace(c) == c = " "

RECURSIVE TrimStart(_)
TrimStart(s) == IF s # <<>> /\ IsWhiteSpace(Head(s)) THEN TrimStart(Tail(s)) ELSE s

RECURSIVE TrimEnd(_)
TrimEnd(s) ==
    IF s # <<>> /\ IsWhiteSpace(s[Len(s)]) THEN TrimEnd(SubSeq(s, 1, Len(s) - 1)) ELSE s

Trim(s) == TrimEnd(TrimStart(s))

\* value of a sequence of digits, most significant first
RECURSIVE DigitsVal(_)
DigitsVal(s) == IF s = <<>> THEN 0 ELSE 10 * DigitsVal(SubSeq(s, 1, Len(s) - 1)) + DigitVal(s[Len(s)])

RECURSIVE Pow10(_)
Pow10(e) == IF e = 0 THEN 1 ELSE 10 * Pow10(e - 1)

AllDigits(s) == \A i \in 1..Len(s) : IsDigit(s[i])

InfinityChars == <<"I", "n", "f", "i", "n", "i", "t", "y">>

\* digits "." digits with at least one digit: ip before the point, fp after it
Fraction(ip, fp) ==
    IF Len(ip) + Len(fp) > 0 /\ AllDigits(ip) /\ AllDigits(fp)
    THEN Rat(DigitsVal(ip \o fp), Pow10(Len(fp)))
    ELSE NaN

\* the literal s whose points stand at the places dots
UnsignedWithPoints(s, dots) ==
    IF s = InfinityChars THEN Inf(1)
    ELSE IF dots = {} THEN (IF s # <<>> /\ AllDigits(s) THEN Num(DigitsVal(s)) ELSE NaN)
    ELSE IF Cardinality(dots) > 1 THEN NaN
    ELSE Fraction(SubSeq(s, 1, (CHOOSE i \in dots : TRUE) - 1),
                  SubSeq(s, (CHOOSE i \in dots : TRUE) + 1, Len(s)))

\* an unsigned decimal literal: digits, digits ".", "." digits or digits "." digits
UnsignedDecimal(s) == UnsignedWithPoints(s, {i \in 1..Len(s) : s[i] = "."})

\* x with the sign c in front of it
Signed(c, x) == IF c = "-" THEN Neg(x) ELSE x

\* a trimmed text: empty, or a literal that a sign may lead
SignedDecimal(t) ==
    IF t = <<>> THEN Num(0)
    ELSE Signed(Head(t), UnsignedDecimal(IF Head(t) \in {"-", "+"} THEN Tail(t) ELSE t))

\* Number(v) for a string v over digits, ".", "+", "-", blanks and letters
\* (StringToNumber: blanks are trimmed, the empty string is 0, a sign may lead,
\* anything that is no numeric literal is NaN)
ToNumber(v) == SignedDecimal(Trim(v))

\* -------------------------------------------------------------------- inputs

\* a text that is no number
Txt == <<"a", "b", "c">>

\* at most this many handler invocations in a run of Spec
MaxEvents == 2

\* readings of the clock at a capture are 1..MaxClock
MaxClock == 2

SexValues == {"", "female", "male"}

EthnicityValues ==
    {"", "African American", "Hispanic/Latino", "Native American", "Asian American",
     "White", "Other"}

\* the texts typed into each numeric input
RawAge ==
    {<<>>, <<" ">>, <<"a", "b", "c">>, <<"3", "5">>, <<"4", "5">>, <<"4", "9", ".", "5">>, <<"5", "5">>}

RawWeight ==
    {<<>>, <<"a", "b", "c">>, <<"1", "0", "0">>, <<"9", "2">>, <<"7", "0">>, <<"2", "4">>}

RawHeight ==
    {<<>>, <<"a", "b", "c">>, <<"1", "7", "0">>}

RawWaist ==
    {<<>>, <<"a", "b", "c">>, <<"9", "5">>, <<"1", "1", "0">>}

RawSbp ==
    {<<>>, <<"a", "b", "c">>, <<"1", "2", "0">>, <<"1", "3", "5">>}

RawDbp ==
    {<<>>, <<"a", "b", "c">>, <<"7", "0">>, <<"8", "2">>, <<"9", "0">>}

RawTg ==
    {<<>>, <<"a", "b", "c">>, <<"1", "0", "0">>, <<"1", "6", "0">>, <<"3", "0", "0">>}

RawHdl ==
    {<<>>, <<"a", "b", "c">>, <<"3", "0">>, <<"4", "5">>, <<"6", "0">>}

RawA1c ==
    {<<>>, <<"a", "b", "c">>, <<"5", ".", "5">>, <<"5", ".", "8">>, <<"6", ".", "2">>, <<"7">>}

RawG0 ==
    {<<>>, <<"a", "b", "c">>, <<"6", "3">>, <<"9", "0">>, <<"9", "5">>, <<"1", "1", "0">>, <<"1", "3", "0">>}

RawG30 ==
    {<<>>, <<"a", "b", "c">>, <<"9", "5">>, <<"1", "5", "0">>}

RawG60 ==
    {<<>>, <<"a", "b", "c">>, <<"1", "5", "0">>, <<"1", "8", "0">>}

RawG90 ==
    {<<>>, <<"a", "b", "c">>, <<"1", "4", "0">>, <<"9", "9", "9">>}

RawG120 ==
    {<<>>, <<"a", "b", "c">>, <<"1", "3", "0">>, <<"1", "5", "0">>, <<"2", "1", "0">>}

RawI0 ==
    {<<>>, <<"a", "b", "c">>, <<"0">>, <<"1", "0">>}

RawI30 ==
    {<<>>, <<"a", "b", "c">>, <<"1", "0">>, <<"6", "0">>}

RawI60 ==
    {<<>>, <<"a", "b", "c">>, <<"5", "0">>}

RawI90 ==
    {<<>>, <<"a", "b", "c">>, <<"4", "0">>}

RawI120 ==
    {<<>>, <<"a", "b", "c">>, <<"3", "0">>}

\* texts that exercise Number(v): blanks, signs, fractions, non-numbers, non-finite
NormTexts ==
    {<<>>,
     <<" ">>,
     <<"a", "b", "c">>,
     <<"N", "a", "N">>,
     <<"I", "n", "f", "i", "n", "i", "t", "y">>,
     <<"-", "I", "n", "f", "i", "n", "i", "t", "y">>,
     <<"-", "5">>,
     <<" ", "4", "5", " ">>,
     <<"+", "4", "5">>,
     <<"5", ".">>,
     <<".", "5">>,
     <<"1", ".", "2", ".", "3">>,
     <<"4", ".", "5">>,
     <<"1", "5", "0">>,
     <<"6", ".", "2">>,
     <<"5", "0", "0", "0">>}

\* every text the inputs take in this model
RawStrings ==
    RawAge \cup RawWeight \cup RawHeight \cup RawWaist \cup RawSbp \cup RawDbp \cup RawTg
    \cup RawHdl \cup RawA1c \cup RawG0 \cup RawG30 \cup RawG60 \cup RawG90 \cup RawG120
    \cup RawI0 \cup RawI30 \cup RawI60 \cup RawI90 \cup RawI120 \cup NormTexts

\* Number(v), tabulated over the texts of the model
NumberOf == [v \in RawStrings |-> ToNumber(v)]

Number(v) == NumberOf[v]

\* ------------------------------------------------------------------ helpers

\* the rest of clampNum once n = Number(v) is known
Clamped(n, min, max) ==
    IF ~IsFinite(n) THEN undefined
    ELSE MathMin(max, MathMax(min, n))

\* slip: the upper bound is not applied
clampNumLowerOnly(v, min, max) ==
    IF ~IsFinite(Number(v)) THEN undefined
    ELSE MathMax(min, Number(v))

\* clampNum(v, min, max)
clampNum(v, min, max) == Clamped(Number(v), min, max)

\* the numbers a list holds: typeof x === "number" && Number.isFinite(x)
RECURSIVE SumFinite(_)
SumFinite(vals) ==
    IF vals = <<>> THEN Num(0)
    ELSE IF IsFinite(Head(vals)) THEN Add(Head(vals), (CHOOSE res \in {SumFinite(u1) : u1 \in {Tail(vals)}} : TRUE))
    ELSE (CHOOSE res \in {SumFinite(u1) : u1 \in {Tail(vals)}} : TRUE)

CountFinite(vals) == Cardinality({i \in 1..Len(vals) : IsFinite(vals[i])})

meanV(vals) ==
    IF CountFinite(vals) = 0 THEN undefined
    ELSE Div(SumFinite(vals), Num(CountFinite(vals)))

\* mean(vals)
mean(vals) == (CHOOSE res \in {meanV(u1) : u1 \in {vals}} : TRUE)

\* safeDiv(a, b)
safeDiv(a, b) ==
    IF IsUndefined(a) \/ IsUndefined(b) THEN undefined
    ELSE IF ~IsFinite(a) \/ ~IsFinite(b) \/ Eq(b, Num(0)) THEN undefined
    ELSE Div(a, b)

\* isIFG(g0), isIGT(g120)
\* slip: the range is tested by negated comparisons, which an absent value passes
isIFGNegated(g) == ~Lt(g, Num(100)) /\ ~Ge(g, Num(126))

isIFG(g) == ~IsUndefined(g) /\ Ge(g, Num(100)) /\ Lt(g, Num(126))

\* slip: the upper end of the impaired band is left open
isIGTNoUpper(g) == ~IsUndefined(g) /\ Ge(g, Num(140))

isIGT(g) == ~IsUndefined(g) /\ Ge(g, Num(140)) /\ Lt(g, Num(200))

\* a string-valued field that is missing (exactRisk?: string)
noText == "<undefined>"

\* JavaScript truthiness of an optional string
Truthy(t) == t # noText /\ t # ""

\* --------------------------------------------------------------------- state

VARIABLES
    baseline,                                  \* null or the saved snapshot
    age, sex, ethnicity, weightKg, heightCm,   \* Step 0: demographics
    waistCm, sbp, dbp, onBPtx, tg, hdl, a1c,
    hxGDM, hxPancreatitis, hasMASLD, hasPCOS, fhxT2D,
    g0, g30, g60, g90, g120,                   \* OGTT glucose, mg/dL (raw text)
    i0, i30, i60, i90, i120,                   \* OGTT insulin, mU/L (raw text)
    events,                                    \* handler invocations so far
    memo,                                      \* the cells React keeps for the useMemo
                                               \* calls: <<>> until a render is followed,
                                               \* then per call its dependency list, its
                                               \* value and whether the last render kept
                                               \* the value (followed by SpecMemo only)
    pc                                         \* "idle", or "render" when a state update
                                               \* has scheduled a render

demoVars == <<age, sex, ethnicity, weightKg, heightCm>>

clinVars == <<waistCm, sbp, dbp, onBPtx, tg, hdl, a1c>>

hxVars == <<hxGDM, hxPancreatitis, hasMASLD, hasPCOS, fhxT2D>>

gluVars == <<g0, g30, g60, g90, g120>>

insVars == <<i0, i30, i60, i90, i120>>

inputVars == <<demoVars, clinVars, hxVars, gluVars, insVars>>

renderVars == <<memo, pc>>

vars == <<baseline, inputVars, events, renderVars>>

null == [set |-> FALSE]

\* ------------------------------------------------- parsed values (lines 204-224)

nAge == clampNum(age, Num(10), Num(100))

nWeight == clampNum(weightKg, Num(20), Num(300))

nHeight == clampNum(heightCm, Num(100), Num(230))

nWaist == clampNum(waistCm, Num(40), Num(200))

nSBP == clampNum(sbp, Num(60), Num(260))

nDBP == clampNum(dbp, Num(30), Num(160))

nTG == clampNum(tg, Num(20), Num(2000))

nHDL == clampNum(hdl, Num(5), Num(200))

nA1c == clampNum(a1c, Rat(35, 10), Num(15))

ng0 == clampNum(g0, Num(40), Num(600))

ng30 == clampNum(g30, Num(40), Num(600))

ng60 == clampNum(g60, Num(40), Num(600))

ng90 == clampNum(g90, Num(40), Num(600))

ng120 == clampNum(g120, Num(40), Num(600))

ni0 == clampNum(i0, Num(0), Num(1000))

ni30 == clampNum(i30, Num(0), Num(2000))

ni60 == clampNum(i60, Num(0), Num(3000))

ni90 == clampNum(i90, Num(0), Num(3000))

ni120 == clampNum(i120, Num(0), Num(3000))

\* ------------------------------------------------------------------- derived

\* bmi (useMemo): weight / (height in m)^2
bmi ==
    IF IsUndefined(nWeight) \/ IsUndefined(nHeight) THEN undefined
    ELSE LET m == Div(nHeight, Num(100))
         IN  IF Eq(m, Num(0)) \/ IsNaN(m) THEN undefined
             ELSE Div(nWeight, Mul(m, m))

isAsian == ethnicity = "Asian American"

highRiskEthnicity ==
    ethnicity \in {"African American", "Hispanic/Latino", "Native American", "Asian American"}

\* ---------- STEP 1: OGTT indication (ogttIndication)

\* slip: the two thresholds are exchanged
bmiThresholdSwapped == IF isAsian THEN 25 ELSE 23

bmiThreshold == IF isAsian THEN 23 ELSE 25

meetsBMI == ~IsUndefined(bmi) /\ Ge(bmi, Num(bmiThreshold))

riskFactors ==
    << [ok |-> hasMASLD, label |-> "MASLD"],
       [ok |-> (~IsUndefined(nSBP) /\ ~IsUndefined(nDBP)
                  /\ (Ge(nSBP, Num(130)) \/ Ge(nDBP, Num(80)))) \/ onBPtx,
        label |-> "Hypertension (>=130/80 or on treatment)"],
       [ok |-> (~IsUndefined(nHDL) /\ Lt(nHDL, Num(35)))
                  \/ (~IsUndefined(nTG) /\ Gt(nTG, Num(250))),
        label |-> "Dyslipidemia (HDL <35 or TG >250)"],
       [ok |-> hasPCOS, label |-> "PCOS"],
       [ok |-> fhxT2D, label |-> "First-degree relative with T2D"],
       [ok |-> highRiskEthnicity, label |-> "High-risk ethnicity"] >>

\* Array.prototype.filter on a sequence of records with an ok field
RECURSIVE FilterOk(_)
FilterOk(xs) ==
    IF xs = <<>> THEN <<>>
    ELSE IF Head(xs).ok THEN <<Head(xs)>> \o FilterOk(Tail(xs))
    ELSE FilterOk(Tail(xs))

\* slip: the risk factors are not filtered
rfMetUnfiltered == riskFactors

rfMet == FilterOk(riskFactors)

\* labels.join(", ")
RECURSIVE JoinLabels(_)
JoinLabels(xs) ==
    IF xs = <<>> THEN ""
    ELSE IF Len(xs) = 1 THEN Head(xs).label
    ELSE Head(xs).label \o ", " \o JoinLabels(Tail(xs))

reasons ==
    (IF ~IsUndefined(ng0) /\ Ge(ng0, Num(100)) /\ Lt(ng0, Num(126))
       THEN <<"FPG 100-125 mg/dL">> ELSE <<>>)
    \o (IF ~IsUndefined(nA1c) /\ Ge(nA1c, Rat(57, 10)) /\ Le(nA1c, Rat(64, 10))
          THEN <<"HbA1c 5.7-6.4%">> ELSE <<>>)
    \o (IF hxGDM THEN <<"History of gestational diabetes">> ELSE <<>>)
    \o (IF hxPancreatitis THEN <<"History of pancreatitis">> ELSE <<>>)
    \o (IF meetsBMI /\ Len(rfMet) >= 1
          THEN << "BMI >=" \o ToString(bmiThreshold) \o " kg/m2 plus risk factor(s): "
                    \o JoinLabels(rfMet) >>
          ELSE <<>>)

ogttIndication == [indicated |-> Len(reasons) > 0, reasons |-> reasons]

\* ---------- STEP 2: metabolic syndrome, ATP III (metabolicSyndrome)

\* slip: the waist branch does not test that sex is known
waistCriterionNoSexTest ==
    IF ~IsUndefined(nWaist)
    THEN [name |-> "Waist circumference",
          met |-> IF sex = "male" THEN Gt(nWaist, Num(102)) ELSE Gt(nWaist, Num(88)),
          detail |-> IF sex = "male" THEN ">102 cm" ELSE ">88 cm"]
    ELSE [name |-> "Waist circumference", met |-> FALSE, detail |-> "Enter sex + waist"]

waistCriterion ==
    IF sex # "" /\ ~IsUndefined(nWaist)
    THEN [name |-> "Waist circumference",
          met |-> IF sex = "male" THEN Gt(nWaist, Num(102)) ELSE Gt(nWaist, Num(88)),
          detail |-> IF sex = "male" THEN ">102 cm" ELSE ">88 cm"]
    ELSE [name |-> "Waist circumference", met |-> FALSE, detail |-> "Enter sex + waist"]

tgCriterion ==
    IF ~IsUndefined(nTG)
    THEN [name |-> "Triglycerides", met |-> Ge(nTG, Num(150)), detail |-> ">=150 mg/dL"]
    ELSE [name |-> "Triglycerides", met |-> FALSE, detail |-> "Enter TG"]

hdlCriterion ==
    IF sex # "" /\ ~IsUndefined(nHDL)
    THEN [name |-> "HDL",
          met |-> IF sex = "male" THEN Lt(nHDL, Num(40)) ELSE Lt(nHDL, Num(50)),
          detail |-> IF sex = "male" THEN "<40 mg/dL" ELSE "<50 mg/dL"]
    ELSE [name |-> "HDL", met |-> FALSE, detail |-> "Enter sex + HDL"]

bpCriterion ==
    IF onBPtx
    THEN [name |-> "Blood pressure", met |-> TRUE, detail |-> "On treatment"]
    ELSE IF ~IsUndefined(nSBP) /\ ~IsUndefined(nDBP)
    THEN [name |-> "Blood pressure",
          met |-> Ge(nSBP, Num(130)) \/ Ge(nDBP, Num(85)), detail |-> ">=130/85"]
    ELSE [name |-> "Blood pressure", met |-> FALSE, detail |-> "Enter BP or treatment"]

fpgCriterion ==
    IF ~IsUndefined(ng0)
    THEN [name |-> "Fasting glucose", met |-> Ge(ng0, Num(100)), detail |-> ">=100 mg/dL"]
    ELSE [name |-> "Fasting glucose", met |-> FALSE, detail |-> "Enter fasting glucose"]

\* the five pushes, in order
criteria == <<waistCriterion, tgCriterion, hdlCriterion, bpCriterion, fpgCriterion>>

\* criteria.reduce((acc, c) => acc + (c.met ? 1 : 0), 0)
RECURSIVE CountMet(_)
CountMet(cs) ==
    IF cs = <<>> THEN 0 ELSE CountMet(SubSeq(cs, 1, Len(cs) - 1)) + (IF cs[Len(cs)].met THEN 1 ELSE 0)

metCount == CountMet(criteria)

\* slip: three met criteria are not enough
presentAboveThree == metCount > 3

present == metCount >= 3

metabolicSyndrome == [present |-> present, metCount |-> metCount, criteria |-> criteria]

\* ---------- Indices, Supplementary Tables 1 and 2 (indices)

gMean == mean(<<ng0, ng30, ng60, ng90, ng120>>)

iMean == mean(<<ni0, ni30, ni60, ni90, ni120>>)

homaIR ==
    IF ~IsUndefined(ng0) /\ ~IsUndefined(ni0) THEN safeDiv(Mul(ng0, ni0), Num(405))
    ELSE undefined

homaIRCutoff ==
    IF hasMASLD THEN Num(2)
    ELSE IF ~IsUndefined(bmi) /\ Gt(bmi, Rat(275, 10)) THEN Rat(36, 10)
    ELSE Rat(465, 100)

matsuda ==
    IF IsUndefined(ng0) \/ IsUndefined(ni0) \/ IsUndefined(gMean) \/ IsUndefined(iMean)
    THEN undefined
    ELSE LET denom == sqrt(Mul(Mul(ng0, ni0), Mul(gMean, iMean)))
         IN  IF ~IsFinite(denom) \/ Eq(denom, Num(0)) THEN undefined
             ELSE Div(Num(10000), denom)

\* slip: the zero-denominator guard is missing
igiNoZeroGuard ==
    IF IsUndefined(ni30) \/ IsUndefined(ni0) \/ IsUndefined(ng30) \/ IsUndefined(ng0)
    THEN undefined
    ELSE Div(Sub(ni30, ni0), Sub(ng30, ng0))

\* (I30 - I0) / (G30 - G0)
igi ==
    IF IsUndefined(ni30) \/ IsUndefined(ni0) \/ IsUndefined(ng30) \/ IsUndefined(ng0)
    THEN undefined
    ELSE LET denom == Sub(ng30, ng0)
         IN  IF Eq(denom, Num(0)) THEN undefined
             ELSE Div(Sub(ni30, ni0), denom)

\* Stumvoll conversions: insulin mU/L -> pmol/L, glucose mg/dL -> mmol/L
i0_pmol == IF IsUndefined(ni0) THEN undefined ELSE Mul(ni0, Num(6))

i30_pmol == IF IsUndefined(ni30) THEN undefined ELSE Mul(ni30, Num(6))

g30_mmol == IF IsUndefined(ng30) THEN undefined ELSE Div(ng30, Num(18))

\* slip: the fasting insulin is not checked for undefined
stumvoll1NoI0Check ==
    IF IsUndefined(i30_pmol) \/ IsUndefined(g30_mmol) THEN undefined
    ELSE Add(Sub(Add(Num(1283), Mul(Rat(1829, 1000), i30_pmol)),
                 Mul(Rat(1387, 10), g30_mmol)),
             Mul(Rat(3772, 1000), i0_pmol))

\* 1283 + (1.829 x I30) - (138.7 x G30) + (3.772 x I0)
stumvoll1 ==
    IF IsUndefined(i30_pmol) \/ IsUndefined(g30_mmol) \/ IsUndefined(i0_pmol) THEN undefined
    ELSE Add(Sub(Add(Num(1283), Mul(Rat(1829, 1000), i30_pmol)),
                 Mul(Rat(1387, 10), g30_mmol)),
             Mul(Rat(3772, 1000), i0_pmol))

\* 287 + (0.4164 x I30) - (26.07 x G30) + (0.9226 x I0)
stumvoll2 ==
    IF IsUndefined(i30_pmol) \/ IsUndefined(g30_mmol) \/ IsUndefined(i0_pmol) THEN undefined
    ELSE Add(Sub(Add(Num(287), Mul(Rat(4164, 10000), i30_pmol)),
                 Mul(Rat(2607, 100), g30_mmol)),
             Mul(Rat(9226, 10000), i0_pmol))

\* DI = Matsuda x IGI
di ==
    IF IsUndefined(matsuda) \/ IsUndefined(igi) THEN undefined
    ELSE Mul(matsuda, igi)

\* (fasting insulin x 360) / (fasting glucose - 63)
homaBeta ==
    IF IsUndefined(ni0) \/ IsUndefined(ng0) THEN undefined
    ELSE LET denom == Sub(ng0, Num(63))
         IN  IF Eq(denom, Num(0)) THEN undefined
             ELSE Div(Mul(ni0, Num(360)), denom)

\* slip: the 90-minute glucose enters the weighted mean
pgAucWeightedWithG90 ==
    IF IsUndefined(ng0) \/ IsUndefined(ng30) \/ IsUndefined(ng60) \/ IsUndefined(ng120)
    THEN undefined
    ELSE Div(Add(Add(Add(Add(ng0, Mul(Num(2), ng30)), Mul(Num(3), ng60)),
                     IF IsUndefined(ng90) THEN Num(0) ELSE Mul(Num(2), ng90)),
                 Mul(Num(2), ng120)),
             Num(4))

\* (PG0 + 2xPG30 + 3xPG60 + 2xPG120) / 4
pgAucWeighted ==
    IF IsUndefined(ng0) \/ IsUndefined(ng30) \/ IsUndefined(ng60) \/ IsUndefined(ng120)
    THEN undefined
    ELSE Div(Add(Add(Add(ng0, Mul(Num(2), ng30)), Mul(Num(3), ng60)), Mul(Num(2), ng120)),
             Num(4))

indices ==
    [gMean |-> gMean, iMean |-> iMean, homaIR |-> homaIR, homaIRCutoff |-> homaIRCutoff,
     matsuda |-> matsuda, igi |-> igi, stumvoll1 |-> stumvoll1, stumvoll2 |-> stumvoll2,
     di |-> di, homaBeta |-> homaBeta, pgAucWeighted |-> pgAucWeighted]

\* ---------- STEP 3: high-risk prognostic markers (risk)

IFG == isIFG(ng0)

IGT == isIGT(ng120)

oneHourHigh == ~IsUndefined(ng60) /\ Gt(ng60, Num(155))

a1cHigh == ~IsUndefined(nA1c) /\ Ge(nA1c, Num(6)) /\ Le(nA1c, Rat(64, 10))

igiLow == ~IsUndefined(igi) /\ Le(igi, Rat(82, 100))

firstPhaseLow == ~IsUndefined(stumvoll1) /\ Le(stumvoll1, Num(1007))

metS == present

\* slip: the descriptive markers are pushed only when no danger rule fired
FlagListElse(ifg, igt, ohh, a1cH, igiL, fpL, mets) ==
    LET danger ==
          (IF igt /\ ohh /\ mets
             THEN << [label |-> "IGT + 1-hour PG >155 mg/dL + metabolic syndrome",
                      severity |-> "danger", exactRisk |-> "52.8%"] >> ELSE <<>>)
          \o (IF ifg /\ igt
                THEN << [label |-> "Combined IFG and IGT",
                         severity |-> "danger", exactRisk |-> ">50%"] >> ELSE <<>>)
          \o (IF ifg /\ ohh /\ mets
                THEN << [label |-> "IFG + 1-hour PG >155 mg/dL + metabolic syndrome",
                         severity |-> "danger", exactRisk |-> "37.8%"] >> ELSE <<>>)
          \o (IF (igt \/ ifg) /\ ohh /\ a1cH
                THEN << [label |-> "IGT or IFG + 1-hour PG >155 mg/dL + HbA1c 6.0-6.4%",
                         severity |-> "danger", exactRisk |-> noText] >> ELSE <<>>)
          \o (IF (igt \/ ifg) /\ ohh /\ (igiL \/ fpL)
                THEN << [label |-> "IGT or IFG + 1-hour PG >155 mg/dL + IGI <=0.82 and/or 1st-phase insulin secretion <=1007 pmol/L",
                         severity |-> "danger", exactRisk |-> noText] >> ELSE <<>>)
    IN  IF danger # <<>> THEN danger
        ELSE (IF ifg THEN << [label |-> "IFG present (FPG 100-125 mg/dL)",
                              severity |-> "warn", exactRisk |-> noText] >> ELSE <<>>)
             \o (IF igt THEN << [label |-> "IGT present (2-hour PG 140-199 mg/dL)",
                                 severity |-> "warn", exactRisk |-> noText] >> ELSE <<>>)
             \o (IF ohh THEN << [label |-> "1-hour PG >155 mg/dL",
                                 severity |-> "warn", exactRisk |-> noText] >> ELSE <<>>)
             \o (IF mets THEN << [label |-> "Metabolic syndrome present (ATP III)",
                                  severity |-> "warn", exactRisk |-> noText] >> ELSE <<>>)

\* the flag list, in the order of the pushes
FlagList(ifg, igt, ohh, a1cH, igiL, fpL, mets) ==
    (IF igt /\ ohh /\ mets
       THEN << [label |-> "IGT + 1-hour PG >155 mg/dL + metabolic syndrome",
                severity |-> "danger", exactRisk |-> "52.8%"] >> ELSE <<>>)
    \o (IF ifg /\ igt
          THEN << [label |-> "Combined IFG and IGT",
                   severity |-> "danger", exactRisk |-> ">50%"] >> ELSE <<>>)
    \o (IF ifg /\ ohh /\ mets
          THEN << [label |-> "IFG + 1-hour PG >155 mg/dL + metabolic syndrome",
                   severity |-> "danger", exactRisk |-> "37.8%"] >> ELSE <<>>)
    \o (IF (igt \/ ifg) /\ ohh /\ a1cH
          THEN << [label |-> "IGT or IFG + 1-hour PG >155 mg/dL + HbA1c 6.0-6.4%",
                   severity |-> "danger", exactRisk |-> noText] >> ELSE <<>>)
    \o (IF (igt \/ ifg) /\ ohh /\ (igiL \/ fpL)
          THEN << [label |-> "IGT or IFG + 1-hour PG >155 mg/dL + IGI <=0.82 and/or 1st-phase insulin secretion <=1007 pmol/L",
                   severity |-> "danger", exactRisk |-> noText] >> ELSE <<>>)
    \o (IF ifg THEN << [label |-> "IFG present (FPG 100-125 mg/dL)",
                        severity |-> "warn", exactRisk |-> noText] >> ELSE <<>>)
    \o (IF igt THEN << [label |-> "IGT present (2-hour PG 140-199 mg/dL)",
                        severity |-> "warn", exactRisk |-> noText] >> ELSE <<>>)
    \o (IF ohh THEN << [label |-> "1-hour PG >155 mg/dL",
                        severity |-> "warn", exactRisk |-> noText] >> ELSE <<>>)
    \o (IF mets THEN << [label |-> "Metabolic syndrome present (ATP III)",
                         severity |-> "warn", exactRisk |-> noText] >> ELSE <<>>)

flags == FlagList(IFG, IGT, oneHourHigh, a1cHigh, igiLow, firstPhaseLow, metS)

\* slip: any flag at all counts as high risk
SomeDangerAnyFlag(fs) == Len(fs) > 0

\* fs.some((f) => f.severity === "danger")
SomeDanger(fs) == \E i \in 1..Len(fs) : fs[i].severity = "danger"

highRisk == SomeDanger(flags)

\* slip: the last flag carrying a figure wins instead of the first
FindExactRiskLast(fs) ==
    LET hits == {i \in 1..Len(fs) : Truthy(fs[i].exactRisk)}
    IN  IF hits = {} THEN noText
        ELSE fs[CHOOSE i \in hits : \A j \in hits : i >= j].exactRisk

\* fs.find((f) => f.exactRisk)?.exactRisk
FindExactRisk(fs) ==
    LET hits == {i \in 1..Len(fs) : Truthy(fs[i].exactRisk)}
    IN  IF hits = {} THEN noText
        ELSE fs[CHOOSE i \in hits : \A j \in hits : i <= j].exactRisk

exactRisk == FindExactRisk(flags)

risk ==
    [IFG |-> IFG, IGT |-> IGT, oneHourHigh |-> oneHourHigh, a1cHigh |-> a1cHigh,
     igiLow |-> igiLow, firstPhaseLow |-> firstPhaseLow, metS |-> metS,
     flags |-> flags, highRisk |-> highRisk, exactRisk |-> exactRisk]

\* ---------- STEP 4: age-based eligibility + weight-loss target (step4)

\* slip: the missing target is an object, which counts as present
noTargetPresent == [defined |-> TRUE, lowKg |-> undefined, highKg |-> undefined]

noTarget == [defined |-> FALSE, lowKg |-> undefined, highKg |-> undefined]

\* slip: no target for the band that is not a candidate
wlNotUnder40 ==
    IF IsUndefined(nWeight) \/ Lt(nAge, Num(40)) THEN noTarget
    ELSE [defined |-> TRUE, lowKg |-> Mul(nWeight, Rat(5, 100)),
          highKg |-> Mul(nWeight, Rat(10, 100))]

wl ==
    IF IsUndefined(nWeight) THEN noTarget
    ELSE [defined |-> TRUE, lowKg |-> Mul(nWeight, Rat(5, 100)),
          highKg |-> Mul(nWeight, Rat(10, 100))]

\* slip: the test for a missing age is left out
step4NoAgeTest ==
    IF ~highRisk
    THEN [applies |-> FALSE,
          decision |-> "Not in high-risk group based on Step 3 criteria.",
          weightLoss |-> noTarget]
    ELSE [applies |-> TRUE,
          decision |->
             IF Lt(nAge, Num(40)) THEN "Age <40 years: Not a candidate (high risk)."
             ELSE IF Ge(nAge, Num(40)) /\ Le(nAge, Num(49))
             THEN "Age 40-49 years: Consider only if able to reverse high-risk prognostic markers with weight loss on repeat OGTT."
             ELSE "Age >=50 years: Can be accepted after risk mitigation with 5-10% weight loss.",
          weightLoss |-> wl]

step4 ==
    IF ~highRisk
    THEN [applies |-> FALSE,
          decision |-> "Not in high-risk group based on Step 3 criteria.",
          weightLoss |-> noTarget]
    ELSE IF IsUndefined(nAge)
    THEN [applies |-> TRUE,
          decision |-> "High-risk group: enter age to determine eligibility recommendation.",
          weightLoss |-> noTarget]
    ELSE [applies |-> TRUE,
          decision |->
             IF Lt(nAge, Num(40)) THEN "Age <40 years: Not a candidate (high risk)."
             ELSE IF Ge(nAge, Num(40)) /\ Le(nAge, Num(49))
             THEN "Age 40-49 years: Consider only if able to reverse high-risk prognostic markers with weight loss on repeat OGTT."
             ELSE "Age >=50 years: Can be accepted after risk mitigation with 5-10% weight loss.",
          weightLoss |-> wl]

\* ---------- Baseline snapshot and comparison

\* f.exactRisk ? `${f.label} [${f.exactRisk}]` : f.label
RenderFlag(f) ==
    IF Truthy(f.exactRisk) THEN f.label \o " [" \o f.exactRisk \o "]" ELSE f.label

\* fs.map(render)
RenderFlags(fs) == [i \in 1..Len(fs) |-> RenderFlag(fs[i])]

\* slip: the flag labels are stored without their figures
SnapshotBareLabels(ts) ==
    [set |-> TRUE, timestamp |-> ts, weightKg |-> nWeight, bmi |-> bmi,
     metsPresent |-> present, highRisk |-> highRisk,
     exactRisk |-> exactRisk, flags |-> [i \in 1..Len(flags) |-> flags[i].label],
     matsuda |-> matsuda, homaIR |-> homaIR, igi |-> igi,
     stumvoll1 |-> stumvoll1, pgAuc |-> pgAucWeighted]

\* the snapshot saveBaseline stores, ts being the reading of new Date()
Snapshot(ts) ==
    [set |-> TRUE, timestamp |-> ts, weightKg |-> nWeight, bmi |-> bmi,
     metsPresent |-> present, highRisk |-> highRisk,
     exactRisk |-> exactRisk, flags |-> RenderFlags(flags),
     matsuda |-> matsuda, homaIR |-> homaIR, igi |-> igi,
     stumvoll1 |-> stumvoll1, pgAuc |-> pgAucWeighted]

\* Array.from(new Set(xs)): the distinct elements of xs in first-occurrence order
RECURSIVE Distinct(_)
Distinct(xs) ==
    IF xs = <<>> THEN <<>>
    ELSE LET init == Distinct(SubSeq(xs, 1, Len(xs) - 1))
             x == xs[Len(xs)]
         IN  IF \E i \in 1..Len(init) : init[i] = x THEN init ELSE Append(init, x)

\* xs.filter((x) => !other.has(x))
\* slip: the negation is lost, the elements that are in other are kept
RECURSIVE WithoutNegationLost(_, _)
WithoutNegationLost(xs, other) ==
    IF xs = <<>> THEN <<>>
    ELSE IF \E i \in 1..Len(other) : other[i] = Head(xs)
    THEN <<Head(xs)>> \o WithoutNegationLost(Tail(xs), other)
    ELSE WithoutNegationLost(Tail(xs), other)

RECURSIVE Without(_, _)
Without(xs, other) ==
    IF xs = <<>> THEN <<>>
    ELSE IF \E i \in 1..Len(other) : other[i] = Head(xs) THEN Without(Tail(xs), other)
    ELSE <<Head(xs)>> \o Without(Tail(xs), other)

\* slip: the difference is taken the other way round
wlPctGain ==
    IF baseline.set /\ ~IsUndefined(baseline.weightKg) /\ ~IsUndefined(nWeight)
         /\ Gt(baseline.weightKg, Num(0))
    THEN Mul(Div(Sub(nWeight, baseline.weightKg), baseline.weightKg), Num(100))
    ELSE undefined

wlPct ==
    IF baseline.set /\ ~IsUndefined(baseline.weightKg) /\ ~IsUndefined(nWeight)
         /\ Gt(baseline.weightKg, Num(0))
    THEN Mul(Div(Sub(baseline.weightKg, nWeight), baseline.weightKg), Num(100))
    ELSE undefined

comparison ==
    IF ~baseline.set THEN null
    ELSE LET baseFlags == Distinct(baseline.flags)
             nowFlags == Distinct(RenderFlags(flags))
         IN  [set |-> TRUE, wlPct |-> wlPct,
              reversedHighRisk |-> baseline.highRisk /\ ~highRisk,
              newHighRisk |-> ~baseline.highRisk /\ highRisk,
              added |-> Without(nowFlags, baseFlags),
              removed |-> Without(baseFlags, nowFlags)]

\* ---------- Printable summary (summary)

toolName == "OGTT-DM Risk Stratifier"

\* the digits 0..9 of f as k decimal places, zero-padded on the left
RECURSIVE FixedDigits(_, _)
FixedDigits(f, k) == IF k = 0 THEN "" ELSE FixedDigits(f \div 10, k - 1) \o ToString(f % 10)

\* v.toFixed(digits) for a finite v, on the exact value of v: the nearest
\* multiple of 10^-digits, the larger in magnitude of two equally near, with
\* the sign of v
toFixedV(x, digits) ==
    LET a == Abs(x.n)
        whole == a \div x.d
        f == (2 * (a % x.d) * Pow10(digits) + x.d) \div (2 * x.d)
        carry == IF f = Pow10(digits) THEN 1 ELSE 0
    IN  (IF x.n < 0 THEN "-" ELSE "")
          \o ToString(whole + carry)
          \o (IF digits = 0 THEN "" ELSE "." \o FixedDigits(IF carry = 1 THEN 0 ELSE f, digits))

toFixed(x, digits) == (CHOOSE res \in {toFixedV(u1, u2) : u1 \in {x}, u2 \in {digits}} : TRUE)

\* fmt(v, digits)
fmt(v, digits) ==
    IF IsNaN(v) THEN "-"
    ELSE IF IsInf(v) THEN (IF v.k = "Infinity" THEN "Infinity" ELSE "-Infinity")
    ELSE toFixed(v, digits)

\* the decimal places of rem/d, at most k of them
RECURSIVE FractionDigits(_, _, _)
FractionDigits(rem, d, k) ==
    IF rem = 0 \/ k = 0 THEN ""
    ELSE ToString((rem * 10) \div d) \o (CHOOSE res \in {FractionDigits(u1, u2, u3) : u1 \in {(rem * 10) % d}, u2 \in {d}, u3 \in {k - 1}} : TRUE)

NumberTextV(x) ==
    (IF x.n < 0 THEN "-" ELSE "")
      \o ToString(Abs(x.n) \div x.d)
      \o (IF Abs(x.n) % x.d = 0 THEN "" ELSE "." \o FractionDigits(Abs(x.n) % x.d, x.d, 6))

\* `${x}` for a finite number x
NumberText(x) == (CHOOSE res \in {NumberTextV(u1) : u1 \in {x}} : TRUE)

\* xs.join(sep)
RECURSIVE JoinStrings(_, _)
JoinStrings(xs, sep) ==
    IF xs = <<>> THEN ""
    ELSE IF Len(xs) = 1 THEN xs[1]
    ELSE xs[1] \o sep \o JoinStrings(Tail(xs), sep)

\* the lines pushed by summary, in order, from the entries of its dependency
\* list: toolName, nAge, sex, ethnicity, bmi, ogttIndication, metabolicSyndrome,
\* risk, step4, indices
summaryLines(tn, a, sx, eth, b, oi, ms, r, s4, ix) ==
    << tn, "-" >>
    \o (IF ~IsUndefined(a) THEN << "Age: " \o NumberText(a) >> ELSE <<>>)
    \o (IF sx # "" THEN << "Sex: " \o sx >> ELSE <<>>)
    \o (IF eth # "" THEN << "Ethnicity: " \o eth >> ELSE <<>>)
    \o (IF ~IsUndefined(b) THEN << "BMI: " \o fmt(b, 1) \o " kg/m2" >> ELSE <<>>)
    \o << " ",
          "Step 1 (OGTT indication): " \o (IF oi.indicated THEN "YES" ELSE "NO") >>
    \o (IF Len(oi.reasons) > 0 THEN << "Reasons: " \o JoinStrings(oi.reasons, "; ") >>
        ELSE <<>>)
    \o << " ",
          "Step 2 (Metabolic syndrome): "
             \o (IF ms.present THEN "PRESENT" ELSE "ABSENT/UNKNOWN")
             \o " (" \o ToString(ms.metCount) \o "/5 criteria met)",
          " ",
          "Step 3 (High-risk prognostic markers): "
             \o (IF r.highRisk THEN "HIGH RISK" ELSE "Not high-risk") >>
    \o (IF Truthy(r.exactRisk) THEN << "Exact risk (per criteria): " \o r.exactRisk >>
        ELSE <<>>)
    \o (IF Len(r.flags) > 0 THEN << "Findings: " \o JoinStrings(RenderFlags(r.flags), "; ") >>
        ELSE <<>>)
    \o << " " >>
    \o (IF s4.applies
        THEN << "Step 4 (Age-based recommendation): " \o s4.decision >>
             \o (IF s4.weightLoss.defined
                 THEN << "Weight-loss target (5-10%): " \o fmt(s4.weightLoss.lowKg, 1)
                           \o "-" \o fmt(s4.weightLoss.highKg, 1) \o " kg" >>
                 ELSE <<>>)
        ELSE <<>>)
    \o << " ",
          "Calculated indices:",
          "- Matsuda index: " \o fmt(ix.matsuda, 2) \o " (IR if <4.3)",
          "- HOMA-IR: " \o fmt(ix.homaIR, 2)
             \o " (cutoff used: >" \o fmt(ix.homaIRCutoff, 2) \o ")",
          "- IGI: " \o fmt(ix.igi, 3) \o " (flag if <=0.82 in Step 3 rule)",
          "- Stumvoll 1st-phase: " \o fmt(ix.stumvoll1, 0) \o " pmol/L (flag if <=1007)",
          "- Stumvoll 2nd-phase: " \o fmt(ix.stumvoll2, 0) \o " pmol/L",
          "- Disposition index (MatsudaxIGI): " \o fmt(ix.di, 3),
          "- HOMA-beta: " \o fmt(ix.homaBeta, 1),
          "- PG AUC (weighted): " \o fmt(ix.pgAucWeighted, 1) \o " mg.h/dL",
          " ",
          "Disclaimer: Clinical decision support/education tool. No patient data are stored. Use clinical judgment." >>

\* lines.join("\n"), from the entries of the dependency list
summaryOf(tn, a, sx, eth, b, oi, ms, r, s4, ix) ==
    JoinStrings(summaryLines(tn, a, sx, eth, b, oi, ms, r, s4, ix), "\n")

summary ==
    summaryOf(toolName, nAge, sex, ethnicity, bmi, ogttIndication, metabolicSyndrome,
              risk, step4, indices)

\* ---------- useMemo dependency lists

\* A memoized value is recomputed in a render exactly when an entry of its
\* dependency list differs from the entry of the previous render. An entry that
\* is itself a memoized object (ogttIndication, metabolicSyndrome, risk, step4,
\* indices, risk.flags) differs exactly when that object was recomputed, so it
\* is represented by the dependency list of the object.

bmiDeps == <<nWeight, nHeight>>

ogttIndicationDeps ==
    <<ng0, nA1c, hxGDM, hxPancreatitis, bmi, isAsian, hasMASLD, nSBP, nDBP, onBPtx,
      nHDL, nTG, hasPCOS, fhxT2D, highRiskEthnicity>>

metabolicSyndromeDeps == <<sex, nWaist, nTG, nHDL, onBPtx, nSBP, nDBP, ng0>>

\* slip: the 90-minute glucose is missing from the list
indicesDepsNoG90 ==
    <<ng0, ng30, ng60, ng120, ni0, ni30, ni60, ni90, ni120, bmi, hasMASLD>>

indicesDeps ==
    <<ng0, ng30, ng60, ng90, ng120, ni0, ni30, ni60, ni90, ni120, bmi, hasMASLD>>

riskDeps == <<ng0, ng120, ng60, nA1c, igi, stumvoll1, present>>

step4Deps == <<highRisk, nAge, nWeight>>

comparisonDeps == <<baseline, nWeight, highRisk, riskDeps>>

summaryDeps ==
    <<toolName, nAge, sex, ethnicity, bmi, ogttIndicationDeps, metabolicSyndromeDeps,
      riskDeps, step4Deps, indicesDeps>>

\* ----------------------------------------------------------------- handlers

saveBaseline(ts) == baseline' = Snapshot(ts) /\ UNCHANGED inputVars

clearBaseline == baseline' = null /\ UNCHANGED inputVars

setAge(v) ==
    /\ age' = v
    /\ UNCHANGED <<baseline, sex, ethnicity, weightKg, heightCm, clinVars, hxVars, gluVars, insVars>>

setSex(v) ==
    /\ sex' = v
    /\ UNCHANGED <<baseline, age, ethnicity, weightKg, heightCm, clinVars, hxVars, gluVars, insVars>>

setEthnicity(v) ==
    /\ ethnicity' = v
    /\ UNCHANGED <<baseline, age, sex, weightKg, heightCm, clinVars, hxVars, gluVars, insVars>>

\* slip: an edit of the weight drops the stored snapshot
setWeightKgDropsBaseline(v) ==
    /\ weightKg' = v
    /\ baseline' = null
    /\ UNCHANGED <<age, sex, ethnicity, heightCm, clinVars, hxVars, gluVars, insVars>>

setWeightKg(v) ==
    /\ weightKg' = v
    /\ UNCHANGED <<baseline, age, sex, ethnicity, heightCm, clinVars, hxVars, gluVars, insVars>>

setHeightCm(v) ==
    /\ heightCm' = v
    /\ UNCHANGED <<baseline, age, sex, ethnicity, weightKg, clinVars, hxVars, gluVars, insVars>>

setWaistCm(v) ==
    /\ waistCm' = v
    /\ UNCHANGED <<baseline, demoVars, sbp, dbp, onBPtx, tg, hdl, a1c, hxVars, gluVars, insVars>>

setSbp(v) ==
    /\ sbp' = v
    /\ UNCHANGED <<baseline, demoVars, waistCm, dbp, onBPtx, tg, hdl, a1c, hxVars, gluVars, insVars>>

setDbp(v) ==
    /\ dbp' = v
    /\ UNCHANGED <<baseline, demoVars, waistCm, sbp, onBPtx, tg, hdl, a1c, hxVars, gluVars, insVars>>

setOnBPtx(v) ==
    /\ onBPtx' = v
    /\ UNCHANGED <<baseline, demoVars, waistCm, sbp, dbp, tg, hdl, a1c, hxVars, gluVars, insVars>>

setTg(v) ==
    /\ tg' = v
    /\ UNCHANGED <<baseline, demoVars, waistCm, sbp, dbp, onBPtx, hdl, a1c, hxVars, gluVars, insVars>>

setHdl(v) ==
    /\ hdl' = v
    /\ UNCHANGED <<baseline, demoVars, waistCm, sbp, dbp, onBPtx, tg, a1c, hxVars, gluVars, insVars>>

setA1c(v) ==
    /\ a1c' = v
    /\ UNCHANGED <<baseline, demoVars, waistCm, sbp, dbp, onBPtx, tg, hdl, hxVars, gluVars, insVars>>

setHxGDM(v) ==
    /\ hxGDM' = v
    /\ UNCHANGED <<baseline, demoVars, clinVars, hxPancreatitis, hasMASLD, hasPCOS, fhxT2D, gluVars, insVars>>

setHxPancreatitis(v) ==
    /\ hxPancreatitis' = v
    /\ UNCHANGED <<baseline, demoVars, clinVars, hxGDM, hasMASLD, hasPCOS, fhxT2D, gluVars, insVars>>

setHasMASLD(v) ==
    /\ hasMASLD' = v
    /\ UNCHANGED <<baseline, demoVars, clinVars, hxGDM, hxPancreatitis, hasPCOS, fhxT2D, gluVars, insVars>>

setHasPCOS(v) ==
    /\ hasPCOS' = v
    /\ UNCHANGED <<baseline, demoVars, clinVars, hxGDM, hxPancreatitis, hasMASLD, fhxT2D, gluVars, insVars>>

setFhxT2D(v) ==
    /\ fhxT2D' = v
    /\ UNCHANGED <<baseline, demoVars, clinVars, hxGDM, hxPancreatitis, hasMASLD, hasPCOS, gluVars, insVars>>

setG0(v) ==
    /\ g0' = v
    /\ UNCHANGED <<baseline, demoVars, clinVars, hxVars, g30, g60, g90, g120, insVars>>

setG30(v) ==
    /\ g30' = v
    /\ UNCHANGED <<baseline, demoVars, clinVars, hxVars, g0, g60, g90, g120, insVars>>

setG60(v) ==
    /\ g60' = v
    /\ UNCHANGED <<baseline, demoVars, clinVars, hxVars, g0, g30, g90, g120, insVars>>

setG90(v) ==
    /\ g90' = v
    /\ UNCHANGED <<baseline, demoVars, clinVars, hxVars, g0, g30, g60, g120, insVars>>

setG120(v) ==
    /\ g120' = v
    /\ UNCHANGED <<baseline, demoVars, clinVars, hxVars, g0, g30, g60, g90, insVars>>

setI0(v) ==
    /\ i0' = v
    /\ UNCHANGED <<baseline, demoVars, clinVars, hxVars, gluVars, i30, i60, i90, i120>>

setI30(v) ==
    /\ i30' = v
    /\ UNCHANGED <<baseline, demoVars, clinVars, hxVars, gluVars, i0, i60, i90, i120>>

setI60(v) ==
    /\ i60' = v
    /\ UNCHANGED <<baseline, demoVars, clinVars, hxVars, gluVars, i0, i30, i90, i120>>

setI90(v) ==
    /\ i90' = v
    /\ UNCHANGED <<baseline, demoVars, clinVars, hxVars, gluVars, i0, i30, i60, i120>>

setI120(v) ==
    /\ i120' = v
    /\ UNCHANGED <<baseline, demoVars, clinVars, hxVars, gluVars, i0, i30, i60, i90>>

\* ---------------------------------------------------------- the specification

\* the state after construction: every useState initial value
Init ==
    /\ baseline = null
    /\ age = <<>> /\ sex = "" /\ ethnicity = "" /\ weightKg = <<>> /\ heightCm = <<>>
    /\ waistCm = <<>> /\ sbp = <<>> /\ dbp = <<>> /\ onBPtx = FALSE
    /\ tg = <<>> /\ hdl = <<>> /\ a1c = <<>>
    /\ hxGDM = FALSE /\ hxPancreatitis = FALSE /\ hasMASLD = FALSE
    /\ hasPCOS = FALSE /\ fhxT2D = FALSE
    /\ g0 = <<>> /\ g30 = <<>> /\ g60 = <<>> /\ g90 = <<>> /\ g120 = <<>>
    /\ i0 = <<>> /\ i30 = <<>> /\ i60 = <<>> /\ i90 = <<>> /\ i120 = <<>>
    /\ events = 0
    /\ memo = <<>>
    /\ pc = "idle"

\* one handler invocation, counted
Event(A) == events < MaxEvents /\ events' = events + 1 /\ A /\ UNCHANGED renderVars

Next ==
    \/ Event(\E ts \in 1..MaxClock : saveBaseline(ts))
    \/ Event(clearBaseline)
    \/ Event(\E v \in RawAge : setAge(v))
    \/ Event(\E v \in SexValues : setSex(v))
    \/ Event(\E v \in EthnicityValues : setEthnicity(v))
    \/ Event(\E v \in RawWeight : setWeightKg(v))
    \/ Event(\E v \in RawHeight : setHeightCm(v))
    \/ Event(\E v \in RawWaist : setWaistCm(v))
    \/ Event(\E v \in RawSbp : setSbp(v))
    \/ Event(\E v \in RawDbp : setDbp(v))
    \/ Event(\E v \in BOOLEAN : setOnBPtx(v))
    \/ Event(\E v \in RawTg : setTg(v))
    \/ Event(\E v \in RawHdl : setHdl(v))
    \/ Event(\E v \in RawA1c : setA1c(v))
    \/ Event(\E v \in BOOLEAN : setHxGDM(v))
    \/ Event(\E v \in BOOLEAN : setHxPancreatitis(v))
    \/ Event(\E v \in BOOLEAN : setHasMASLD(v))
    \/ Event(\E v \in BOOLEAN : setHasPCOS(v))
    \/ Event(\E v \in BOOLEAN : setFhxT2D(v))
    \/ Event(\E v \in RawG0 : setG0(v))
    \/ Event(\E v \in RawG30 : setG30(v))
    \/ Event(\E v \in RawG60 : setG60(v))
    \/ Event(\E v \in RawG90 : setG90(v))
    \/ Event(\E v \in RawG120 : setG120(v))
    \/ Event(\E v \in RawI0 : setI0(v))
    \/ Event(\E v \in RawI30 : setI30(v))
    \/ Event(\E v \in RawI60 : setI60(v))
    \/ Event(\E v \in RawI90 : setI90(v))
    \/ Event(\E v \in RawI120 : setI120(v))

Spec == Init /\ [][Next]_vars

\* Handlers invoked any number of times (the specifications below follow a few
\* inputs through all their values and leave the event count alone).
Free(A) == A /\ UNCHANGED <<events, renderVars>>

\* Step 3 inputs: glucose 0/30/60/120, insulin 0/30, HbA1c, and the metabolic
\* syndrome through fasting glucose, triglycerides and treatment
NextRisk ==
    \/ Free(\E v \in {<<>>, Txt, <<"9", "5">>, <<"1", "1", "0">>, <<"1", "3", "0">>} : setG0(v))
    \/ Free(\E v \in {<<>>, Txt, <<"1", "5", "0">>} : setG30(v))
    \/ Free(\E v \in {<<>>, Txt, <<"1", "8", "0">>} : setG60(v))
    \/ Free(\E v \in {<<>>, Txt, <<"1", "5", "0">>} : setG120(v))
    \/ Free(\E v \in {<<>>, <<"1", "0">>} : setI0(v))
    \/ Free(\E v \in {<<>>, <<"6", "0">>} : setI30(v))
    \/ Free(\E v \in {<<>>, Txt, <<"6", ".", "2">>} : setA1c(v))
    \/ Free(\E v \in {<<>>, <<"1", "6", "0">>} : setTg(v))
    \/ Free(\E v \in BOOLEAN : setOnBPtx(v))

SpecRisk == Init /\ [][NextRisk]_vars

\* ------------------------------------------------------------ Step 3 claims

\* the conditions of the rule table of Step 3, in table order
RuleHolds ==
    << IGT /\ oneHourHigh /\ metS,
       IFG /\ IGT,
       IFG /\ oneHourHigh /\ metS,
       (IGT \/ IFG) /\ oneHourHigh /\ a1cHigh,
       (IGT \/ IFG) /\ oneHourHigh /\ (igiLow \/ firstPhaseLow),
       IFG,
       IGT,
       oneHourHigh,
       metS >>

\* the labels of the rule table of Step 3, in table order
RuleLabels ==
    << "IGT + 1-hour PG >155 mg/dL + metabolic syndrome",
       "Combined IFG and IGT",
       "IFG + 1-hour PG >155 mg/dL + metabolic syndrome",
       "IGT or IFG + 1-hour PG >155 mg/dL + HbA1c 6.0-6.4%",
       "IGT or IFG + 1-hour PG >155 mg/dL + IGI <=0.82 and/or 1st-phase insulin secretion <=1007 pmol/L",
       "IFG present (FPG 100-125 mg/dL)",
       "IGT present (2-hour PG 140-199 mg/dL)",
       "1-hour PG >155 mg/dL",
       "Metabolic syndrome present (ATP III)" >>

\* the table row of a reported flag
RowOf(f) == CHOOSE k \in 1..9 : RuleLabels[k] = f.label

\* what C1 says of a flag list fs, the verdict hr and the rule conditions rh
HighRiskIffDanger(fs, hr, rh) ==
    /\ hr <=> (\E i \in 1..Len(fs) : fs[i].severity = "danger")
    /\ hr <=> (\E k \in 1..5 : rh[k])
    /\ (\A i \in 1..Len(fs) : fs[i].severity = "warn") => ~hr

\* C1: highRisk is true if and only if a flag of severity "danger" is in the
\* reported list, which is the case exactly when one of the five danger rules
\* matched; a list of warn flags only never yields highRisk.
C1_HighRiskIffDanger == HighRiskIffDanger(flags, highRisk, RuleHolds)

\* C1 witness: warn flags are reported and no danger rule matched
C1_Witness_WarnOnly ==
    /\ IFG /\ oneHourHigh /\ ~IGT /\ ~metS /\ ~a1cHigh /\ ~igiLow /\ ~firstPhaseLow
    /\ Len(flags) = 2
    /\ ~highRisk

\* C2: exactRisk is the figure of the first matching danger rule in table order
\* (52.8%, then >50%, then 37.8%), and is missing when no danger rule that
\* carries a figure matches.
C2_ExactRiskFirstMatch ==
    exactRisk = (IF IGT /\ oneHourHigh /\ metS THEN "52.8%"
                 ELSE IF IFG /\ IGT THEN ">50%"
                 ELSE IF IFG /\ oneHourHigh /\ metS THEN "37.8%"
                 ELSE noText)

\* C2 witness: the 52.8% rule and the >50% rule both match and 52.8% is reported
C2_Witness_BothMatch ==
    /\ IGT /\ oneHourHigh /\ metS
    /\ IFG
    /\ exactRisk = "52.8%"

\* what C3 says of a flag list fs and the rule conditions rh
RulesIndependent(fs, rh) ==
    /\ \A k \in 1..9 : rh[k] <=> (\E i \in 1..Len(fs) : fs[i].label = RuleLabels[k])
    /\ \A i \in 1..Len(fs) : \E k \in 1..9 : fs[i].label = RuleLabels[k]
    /\ \A i, j \in 1..Len(fs) : i < j => RowOf(fs[i]) < RowOf(fs[j])
    /\ \A i \in 1..Len(fs) : fs[i].severity = (IF RowOf(fs[i]) <= 5 THEN "danger" ELSE "warn")

\* C3: the flag list holds the flag of a rule exactly when the rule's condition
\* holds, every flag at most once and in table order; the four single-condition
\* warn rules are reported also when danger rules fire.
C3_RulesIndependent == RulesIndependent(flags, RuleHolds)

\* C3 witness: several danger rules and all four warn rules are reported together
C3_Witness_AllReported ==
    /\ Len(flags) = 9
    /\ highRisk

\* ------------------------------------------------------- Normalizer claims

\* age, weight and HbA1c through every text of NormTexts
NextNorm ==
    \/ Free(\E v \in NormTexts : setAge(v))
    \/ Free(\E v \in NormTexts : setWeightKg(v))
    \/ Free(\E v \in NormTexts : setA1c(v))

SpecNorm == Init /\ [][NextNorm]_vars

\* what C4 says of the text raw of a field, its normalized value n and its range
ClampContract(raw, n, min, max) ==
    LET p == ToNumber(raw)
    IN  /\ IsUndefined(n) \/ (IsFinite(n) /\ Le(min, n) /\ Le(n, max))
        /\ (IsFinite(p) /\ Le(min, p) /\ Le(p, max)) => n = p
        /\ (IsFinite(p) /\ Lt(p, min)) => n = min
        /\ (IsFinite(p) /\ Gt(p, max)) => n = max
        /\ ~IsFinite(p) => IsUndefined(n)

\* C4: clampNum returns absent or a number inside [min, max]: a text that
\* parses to a finite number is returned unchanged inside the range and replaced
\* by the nearer bound outside it; non-numeric text, NaN and +-Infinity give
\* absent; and editing one field leaves the normalized value of the others alone.
C4_ClampContract ==
    /\ [](/\ ClampContract(age, nAge, Num(10), Num(100))
          /\ ClampContract(weightKg, nWeight, Num(20), Num(300))
          /\ ClampContract(a1c, nA1c, Rat(35, 10), Num(15)))
    /\ [][/\ age' = age => nAge' = nAge
          /\ weightKg' = weightKg => nWeight' = nWeight
          /\ a1c' = a1c => nA1c' = nA1c]_vars

\* C4 witness: one field absent (non-numeric text), one clamped to its upper
\* bound, one inside its range and unchanged
C4_Witness_Clamped ==
    /\ age = Txt /\ IsUndefined(nAge)
    /\ ToNumber(weightKg) = Num(5000) /\ nWeight = Num(300)
    /\ ToNumber(a1c) = Rat(62, 10) /\ nA1c = Rat(62, 10)

\* a numeric input that has not been entered: empty or blank text
NotEntered(raw) == Trim(raw) = <<>>

\* C5: a numeric field that has not been entered normalizes to absent, so with
\* nothing entered every normalized measurement, BMI and every index is absent.
C5_NotEnteredIsAbsent ==
    /\ NotEntered(age) => IsUndefined(nAge)
    /\ NotEntered(weightKg) => IsUndefined(nWeight)
    /\ NotEntered(heightCm) => IsUndefined(nHeight)
    /\ NotEntered(waistCm) => IsUndefined(nWaist)
    /\ NotEntered(sbp) => IsUndefined(nSBP)
    /\ NotEntered(dbp) => IsUndefined(nDBP)
    /\ NotEntered(tg) => IsUndefined(nTG)
    /\ NotEntered(hdl) => IsUndefined(nHDL)
    /\ NotEntered(a1c) => IsUndefined(nA1c)
    /\ NotEntered(g0) => IsUndefined(ng0)
    /\ NotEntered(g30) => IsUndefined(ng30)
    /\ NotEntered(g60) => IsUndefined(ng60)
    /\ NotEntered(g90) => IsUndefined(ng90)
    /\ NotEntered(g120) => IsUndefined(ng120)
    /\ NotEntered(i0) => IsUndefined(ni0)
    /\ NotEntered(i30) => IsUndefined(ni30)
    /\ NotEntered(i60) => IsUndefined(ni60)
    /\ NotEntered(i90) => IsUndefined(ni90)
    /\ NotEntered(i120) => IsUndefined(ni120)
    /\ (NotEntered(weightKg) /\ NotEntered(heightCm)) => IsUndefined(bmi)
    /\ (NotEntered(g0) /\ NotEntered(g30) /\ NotEntered(g60) /\ NotEntered(g120)
          /\ NotEntered(i0) /\ NotEntered(i30))
       => /\ IsUndefined(homaIR) /\ IsUndefined(matsuda) /\ IsUndefined(igi)
          /\ IsUndefined(stumvoll1) /\ IsUndefined(stumvoll2) /\ IsUndefined(di)
          /\ IsUndefined(homaBeta) /\ IsUndefined(pgAucWeighted)

\* ------------------------------------------------- Index Calculator claims

\* the ten OGTT timepoints, each missing (non-numeric text), not entered or a value
NextIdx ==
    \/ Free(\E v \in {<<>>, Txt, <<"9", "0">>} : setG0(v))
    \/ Free(\E v \in {<<>>, Txt, <<"1", "5", "0">>} : setG30(v))
    \/ Free(\E v \in {<<>>, Txt, <<"1", "8", "0">>} : setG60(v))
    \/ Free(\E v \in {<<>>, Txt, <<"1", "4", "0">>, <<"9", "9", "9">>} : setG90(v))
    \/ Free(\E v \in {<<>>, Txt, <<"1", "3", "0">>} : setG120(v))
    \/ Free(\E v \in {<<>>, Txt, <<"1", "0">>} : setI0(v))
    \/ Free(\E v \in {<<>>, Txt, <<"6", "0">>} : setI30(v))
    \/ Free(\E v \in {<<>>, Txt} : setI60(v))
    \/ Free(\E v \in {<<>>, Txt} : setI90(v))
    \/ Free(\E v \in {<<>>, Txt} : setI120(v))

SpecIdx == Init /\ [][NextIdx]_vars

\* C6: absence propagates through the indices: HOMA-IR, Matsuda and HOMA-beta
\* are absent if G0 or I0 is; IGI if any of G0, G30, I0, I30 is; both Stumvoll
\* phases if any of I0, I30, G30 is; the disposition index if Matsuda or IGI
\* is; PG-AUC if any of G0, G30, G60, G120 is; the means exactly when none of
\* the five timepoints is present.
C6_AbsencePropagates ==
    /\ (IsUndefined(ng0) \/ IsUndefined(ni0))
          => IsUndefined(homaIR) /\ IsUndefined(matsuda) /\ IsUndefined(homaBeta)
    /\ (IsUndefined(ng0) \/ IsUndefined(ng30) \/ IsUndefined(ni0) \/ IsUndefined(ni30))
          => IsUndefined(igi)
    /\ (IsUndefined(ni0) \/ IsUndefined(ni30) \/ IsUndefined(ng30))
          => IsUndefined(stumvoll1) /\ IsUndefined(stumvoll2)
    /\ (IsUndefined(matsuda) \/ IsUndefined(igi)) => IsUndefined(di)
    /\ (IsUndefined(ng0) \/ IsUndefined(ng30) \/ IsUndefined(ng60) \/ IsUndefined(ng120))
          => IsUndefined(pgAucWeighted)
    /\ IsUndefined(gMean)
          <=> (IsUndefined(ng0) /\ IsUndefined(ng30) /\ IsUndefined(ng60)
                 /\ IsUndefined(ng90) /\ IsUndefined(ng120))
    /\ IsUndefined(iMean)
          <=> (IsUndefined(ni0) /\ IsUndefined(ni30) /\ IsUndefined(ni60)
                 /\ IsUndefined(ni90) /\ IsUndefined(ni120))

\* C6 witness: fasting insulin alone is missing; the indices that need it are
\* absent while PG-AUC, IGI-free values and both means are numbers
C6_Witness_I0Missing ==
    /\ IsUndefined(ni0) /\ ~IsUndefined(ng0) /\ ~IsUndefined(ng30) /\ ~IsUndefined(ni30)
    /\ IsUndefined(homaIR) /\ IsUndefined(stumvoll1) /\ IsUndefined(di)
    /\ IsFinite(pgAucWeighted) /\ IsFinite(gMean) /\ IsFinite(iMean)

\* the five glucose timepoints alone
NextAuc ==
    \/ Free(\E v \in {<<>>, Txt, <<"9", "0">>} : setG0(v))
    \/ Free(\E v \in {<<>>, Txt, <<"1", "5", "0">>} : setG30(v))
    \/ Free(\E v \in {<<>>, Txt, <<"1", "8", "0">>} : setG60(v))
    \/ Free(\E v \in RawG90 : setG90(v))
    \/ Free(\E v \in {<<>>, Txt, <<"1", "3", "0">>} : setG120(v))

SpecAuc == Init /\ [][NextAuc]_vars

\* C9: weighted PG-AUC is (G0 + 2 G30 + 3 G60 + 2 G120) / 4, 297.5 for
\* 90/150/180/130, and an edit that leaves G0, G30, G60 and G120 alone (an edit
\* of G90 to any value or to nothing) leaves it unchanged.
C9_PgAucIgnoresG90 ==
    /\ [](/\ IsFinite(pgAucWeighted)
               => Mul(pgAucWeighted, Num(4))
                    = Add(Add(ng0, Add(ng30, ng30)), Add(Add(ng60, Add(ng60, ng60)), Add(ng120, ng120)))
          /\ (ng0 = Num(90) /\ ng30 = Num(150) /\ ng60 = Num(180) /\ ng120 = Num(130))
               => pgAucWeighted = Rat(595, 2))
    /\ [][UNCHANGED <<g0, g30, g60, g120>> => pgAucWeighted' = pgAucWeighted]_vars

\* C9 witness: 90/150/180/130 with the 90-minute glucose at 999 (clamped to 600)
C9_Witness_G90Set ==
    /\ ng0 = Num(90) /\ ng30 = Num(150) /\ ng60 = Num(180) /\ ng120 = Num(130)
    /\ ng90 = Num(600)
    /\ pgAucWeighted = Rat(595, 2)

\* ------------------------------------------------- zero-denominator claims

\* fasting values that zero a denominator (G0 = 63, G30 = G0, I0 = 0), weights
\* and a height, and a stored baseline to compare the weight against
NextZero ==
    \/ Free(\E v \in {<<>>, <<"6", "3">>, <<"9", "5">>} : setG0(v))
    \/ Free(\E v \in {<<>>, <<"9", "5">>} : setG30(v))
    \/ Free(\E v \in {<<>>, <<"1", "0">>} : setI0(v))
    \/ Free(\E v \in {<<>>, Txt, <<"1", "0", "0">>, <<"9", "2">>} : setWeightKg(v))
    \/ Free(\E v \in {<<>>, <<"1", "7", "0">>} : setHeightCm(v))
    \/ Free(\E ts \in {1} : saveBaseline(ts))
    \/ Free(clearBaseline)

SpecZero == Init /\ [][NextZero]_vars

\* a value a caller may see: a finite number or absent
FiniteOrAbsent(x) == IsFinite(x) \/ IsUndefined(x)

\* the zero-denominator contract for Matsuda m with means gm and im, IGI ig,
\* HOMA-beta hb, BMI b, weight-change percent w and the remaining values rest
ZeroDenominatorAbsent(gm, im, m, ig, hb, b, w, rest) ==
    /\ \A x \in {gm, im, m, ig, hb, b, w} \cup rest : FiniteOrAbsent(x)
    /\ Eq(ng30, ng0) => IsUndefined(ig)
    /\ Eq(ng0, Num(63)) => IsUndefined(hb)
    /\ Eq(Mul(Mul(ng0, ni0), Mul(gm, im)), Num(0)) => IsUndefined(m)
    /\ Eq(ni0, Num(0)) => IsUndefined(m)
    /\ IsFinite(b) => Gt(Mul(Div(nHeight, Num(100)), Div(nHeight, Num(100))), Num(0))
    /\ IsFinite(w) => Gt(baseline.weightKg, Num(0))

\* C7: no index, BMI or weight-change percent, current or stored in the
\* baseline, is ever infinite or NaN; IGI is absent when G30 = G0, HOMA-beta
\* when G0 = 63, Matsuda when (G0 x I0) x (meanG x meanI) is zero (as when
\* I0 = 0); BMI and the weight-change percent are computed only with a positive
\* divisor.
C7_ZeroDenominatorAbsent ==
    ZeroDenominatorAbsent(gMean, iMean, matsuda, igi, homaBeta, bmi, wlPct,
        {homaIR, stumvoll1, stumvoll2, di, pgAucWeighted}
          \cup (IF baseline.set
                THEN {baseline.bmi, baseline.matsuda, baseline.homaIR, baseline.igi,
                      baseline.stumvoll1, baseline.pgAuc}
                ELSE {}))

\* C7 witness: G0 = G30 = 95 with both insulin values numbers: IGI is absent
\* while HOMA-beta and Matsuda are finite, and a weight change is reported
C7_Witness_EqualGlucose ==
    /\ ng0 = Num(95) /\ ng30 = Num(95) /\ IsFinite(ni0) /\ IsFinite(ni30)
    /\ IsUndefined(igi) /\ IsFinite(homaBeta) /\ IsFinite(matsuda)
    /\ IsFinite(bmi) /\ IsFinite(wlPct) /\ ~Eq(wlPct, Num(0))

\* ------------------------------------------------- absent-input claims

\* every numeric field holds non-numeric text (Init followed by one setter call
\* per field), every toggle is off
InitAbsent ==
    /\ baseline = null
    /\ age = Txt /\ sex = "" /\ ethnicity = "" /\ weightKg = Txt /\ heightCm = Txt
    /\ waistCm = Txt /\ sbp = Txt /\ dbp = Txt /\ onBPtx = FALSE
    /\ tg = Txt /\ hdl = Txt /\ a1c = Txt
    /\ hxGDM = FALSE /\ hxPancreatitis = FALSE /\ hasMASLD = FALSE
    /\ hasPCOS = FALSE /\ fhxT2D = FALSE
    /\ g0 = Txt /\ g30 = Txt /\ g60 = Txt /\ g90 = Txt /\ g120 = Txt
    /\ i0 = Txt /\ i30 = Txt /\ i60 = Txt /\ i90 = Txt /\ i120 = Txt
    /\ events = 0
    /\ memo = <<>>
    /\ pc = "idle"

\* each input of a classification is either missing or a value that trips it
NextAbsent ==
    \/ Free(\E v \in {Txt, <<"1", "1", "0">>} : setG0(v))
    \/ Free(\E v \in {Txt, <<"1", "5", "0">>} : setG30(v))
    \/ Free(\E v \in {Txt, <<"1", "8", "0">>} : setG60(v))
    \/ Free(\E v \in {Txt, <<"1", "5", "0">>} : setG120(v))
    \/ Free(\E v \in {Txt, <<"1", "0">>} : setI0(v))
    \/ Free(\E v \in {Txt, <<"1", "0">>} : setI30(v))
    \/ Free(\E v \in {Txt, <<"6", ".", "2">>} : setA1c(v))
    \/ Free(\E v \in {Txt, <<"1", "0", "0">>} : setWeightKg(v))
    \/ Free(\E v \in {Txt, <<"1", "7", "0">>} : setHeightCm(v))
    \/ Free(\E v \in {"", "male"} : setSex(v))
    \/ Free(\E v \in BOOLEAN : setHasMASLD(v))
    \/ Free(\E v \in BOOLEAN : setHxGDM(v))
    \/ Free(\E v \in BOOLEAN : setOnBPtx(v))

SpecAbsent == InitAbsent /\ [][NextAbsent]_vars

\* every normalized measurement is absent
AllAbsent ==
    \A x \in {nAge, nWeight, nHeight, nWaist, nSBP, nDBP, nTG, nHDL, nA1c,
              ng0, ng30, ng60, ng90, ng120, ni0, ni30, ni60, ni90, ni120} : IsUndefined(x)

NoToggle == ~(onBPtx \/ hxGDM \/ hxPancreatitis \/ hasMASLD \/ hasPCOS \/ fhxT2D)

\* the verdicts for Step 1 reasons rs, met count mc, flag list fs
AllNegative(rs, mc, fs) ==
    /\ rs = <<>> /\ ~ogttIndication.indicated
    /\ mc = 0 /\ ~present /\ \A i \in 1..Len(criteria) : ~criteria[i].met
    /\ fs = <<>> /\ ~highRisk
    /\ ~step4.applies

\* C8: a boolean classification is false when its input is absent: IFG without
\* G0, IGT without G120, one-hour-high without G60, A1c-high and the Step 1
\* HbA1c trigger without HbA1c, IGI-low without IGI, first-phase-low without
\* Stumvoll-1, the Step 1 BMI condition without BMI; with every measurement
\* absent and every toggle off, Step 1 is not indicated, no criterion is met,
\* the flag list is empty, highRisk is false and Step 4 does not apply.
C8_AbsentDefaultsFalse ==
    /\ IsUndefined(ng0) => ~IFG /\ ~isIFG(ng0)
    /\ IsUndefined(ng120) => ~IGT
    /\ IsUndefined(ng60) => ~oneHourHigh
    /\ IsUndefined(nA1c)
          => ~a1cHigh /\ \A i \in 1..Len(reasons) : reasons[i] # "HbA1c 5.7-6.4%"
    /\ IsUndefined(igi) => ~igiLow
    /\ IsUndefined(stumvoll1) => ~firstPhaseLow
    /\ IsUndefined(bmi)
          => ~meetsBMI /\ \A i \in 1..Len(reasons) : SubSeq(reasons[i], 1, 3) # "BMI"
    /\ (AllAbsent /\ NoToggle) => AllNegative(reasons, metCount, flags)

\* C8 witness: nothing numeric entered, sex chosen, no toggle on: every
\* classification is false and every verdict negative
C8_Witness_AllAbsent ==
    /\ AllAbsent /\ NoToggle /\ sex = "male"
    /\ ~IFG /\ ~IGT /\ ~oneHourHigh /\ ~a1cHigh /\ ~igiLow /\ ~firstPhaseLow /\ ~meetsBMI
    /\ reasons = <<>> /\ metCount = 0 /\ flags = <<>> /\ ~highRisk

\* ------------------------------------------------- metabolic syndrome claims

\* the inputs of the five criteria: each measurement not entered, missing, below
\* or above its cutoff, for either sex or none
NextMetS ==
    \/ Free(\E v \in {"", "male", "female"} : setSex(v))
    \/ Free(\E v \in {<<>>, Txt, <<"9", "5">>, <<"1", "1", "0">>} : setWaistCm(v))
    \/ Free(\E v \in {<<>>, Txt, <<"1", "0", "0">>, <<"1", "6", "0">>} : setTg(v))
    \/ Free(\E v \in {<<>>, Txt, <<"4", "5">>, <<"6", "0">>} : setHdl(v))
    \/ Free(\E v \in BOOLEAN : setOnBPtx(v))
    \/ Free(\E v \in {<<>>, Txt, <<"1", "3", "5">>} : setSbp(v))
    \/ Free(\E v \in {<<>>, Txt, <<"9", "0">>} : setDbp(v))
    \/ Free(\E v \in {<<>>, Txt, <<"1", "1", "0">>} : setG0(v))

SpecMetS == Init /\ [][NextMetS]_vars

CriterionNames ==
    <<"Waist circumference", "Triglycerides", "HDL", "Blood pressure", "Fasting glucose">>

\* the verdict pr and count mc agree with the criteria list cs
MetSContract(cs, mc, pr) ==
    /\ Len(cs) = 5
    /\ \A i \in 1..5 : cs[i].name = CriterionNames[i] /\ cs[i].met \in BOOLEAN
    /\ mc = Cardinality({i \in 1..5 : cs[i].met})
    /\ mc \in 0..5
    /\ pr <=> mc >= 3
    /\ mc = 3 => pr
    /\ mc = 2 => ~pr

\* C10: metabolic syndrome is present exactly when at least 3 criteria are met;
\* the count is over exactly five criteria (waist, triglycerides, HDL, blood
\* pressure, fasting glucose), each counted once, so it lies in 0..5; 3 met
\* gives present and 2 met gives not present.
C10_PresentIffThreeMet ==
    /\ MetSContract(criteria, metCount, present)
    /\ metabolicSyndrome = [present |-> present, metCount |-> metCount, criteria |-> criteria]

\* C10 witness: exactly three criteria met (blood pressure by treatment alone),
\* and the syndrome is present
C10_Witness_ExactlyThree ==
    /\ metCount = 3 /\ present /\ onBPtx
    /\ criteria[4].met /\ criteria[5].met /\ ~criteria[1].met

\* a criterion whose inputs are missing is not met, in the criteria list cs
MissingIsNotMet(cs, mc) ==
    /\ (sex = "" \/ IsUndefined(nWaist)) => ~cs[1].met
    /\ IsUndefined(nTG) => ~cs[2].met
    /\ (sex = "" \/ IsUndefined(nHDL)) => ~cs[3].met
    /\ (~onBPtx /\ IsUndefined(nSBP) /\ IsUndefined(nDBP)) => ~cs[4].met
    /\ IsUndefined(ng0) => ~cs[5].met
    /\ sex = "" => mc <= 3

\* C11: a metabolic-syndrome criterion whose input is missing is not met: waist
\* and HDL when sex is unknown or the measurement absent, triglycerides without
\* TG, fasting glucose without G0, blood pressure when off treatment with no
\* blood pressure; so with sex unknown at most 3 criteria are met.
C11_MissingIsNotMet == MissingIsNotMet(criteria, metCount)

\* C11 witness: sex unknown with a large waist and a low HDL entered: neither
\* counts, and the three other criteria are met
C11_Witness_SexUnknown ==
    /\ sex = "" /\ nWaist = Num(110) /\ nHDL = Num(5)
    /\ ~criteria[1].met /\ ~criteria[3].met /\ metCount = 3

\* C12: the blood-pressure criterion is met exactly when the patient is on
\* treatment, or a present systolic is >= 130, or a present diastolic is >= 85,
\* whether or not the other blood-pressure value is present.
C12_BloodPressureEitherValue ==
    criteria[4].met <=> \/ onBPtx
                        \/ (~IsUndefined(nSBP) /\ Ge(nSBP, Num(130)))
                        \/ (~IsUndefined(nDBP) /\ Ge(nDBP, Num(85)))

\* ------------------------------------------------- Step 1 claims

\* the inputs of Step 1; height stays at its lower bound of 100 cm, so that BMI
\* equals the weight in kg
NextInd ==
    \/ Free(\E v \in {<<>>, <<"1", "1", "0">>, <<"1", "3", "0">>} : setG0(v))
    \/ Free(\E v \in {<<>>, <<"5", ".", "8">>, <<"7">>} : setA1c(v))
    \/ Free(\E v \in BOOLEAN : setHxGDM(v))
    \/ Free(\E v \in BOOLEAN : setHxPancreatitis(v))
    \/ Free(\E v \in {<<>>, Txt, <<"2", "4">>, <<"1", "0", "0">>} : setWeightKg(v))
    \/ Free(\E v \in {"", "Asian American", "White"} : setEthnicity(v))
    \/ Free(\E v \in BOOLEAN : setHasMASLD(v))
    \/ Free(\E v \in BOOLEAN : setHasPCOS(v))
    \/ Free(\E v \in BOOLEAN : setFhxT2D(v))
    \/ Free(\E v \in BOOLEAN : setOnBPtx(v))
    \/ Free(\E v \in {<<>>, <<"4", "5">>} : setHdl(v))

SpecInd == Init /\ [][NextInd]_vars

\* the four direct triggers, in the order of their reasons
DirectTriggers ==
    << ~IsUndefined(ng0) /\ Ge(ng0, Num(100)) /\ Lt(ng0, Num(126)),
       ~IsUndefined(nA1c) /\ Ge(nA1c, Rat(57, 10)) /\ Le(nA1c, Rat(64, 10)),
       hxGDM,
       hxPancreatitis >>

DirectReasons ==
    << "FPG 100-125 mg/dL", "HbA1c 5.7-6.4%", "History of gestational diabetes",
       "History of pancreatitis" >>

\* the labels of the risk factors rf[i..6] that hold, each preceded by ", "
RECURSIVE MatchedLabels(_, _)
MatchedLabels(rf, i) ==
    IF i > Len(rf) THEN ""
    ELSE (IF rf[i].ok THEN ", " \o rf[i].label ELSE "") \o MatchedLabels(rf, i + 1)

\* the reasons Step 1 is to report for direct triggers dt, BMI b and risk factors rf
RECURSIVE ExpectedDirect(_, _)
ExpectedDirect(dt, i) ==
    IF i > 4 THEN <<>>
    ELSE (IF dt[i] THEN <<DirectReasons[i]>> ELSE <<>>) \o ExpectedDirect(dt, i + 1)

BmiTrigger(b, rf) ==
    /\ ~IsUndefined(b)
    /\ Ge(b, Num(IF ethnicity = "Asian American" THEN 23 ELSE 25))
    /\ \E i \in 1..6 : rf[i].ok

ExpectedBmiReason(rf) ==
    LET all == MatchedLabels(rf, 1)
    IN  "BMI >=" \o (IF ethnicity = "Asian American" THEN "23" ELSE "25")
          \o " kg/m2 plus risk factor(s): " \o SubSeq(all, 3, Len(all))

IndicationContract(rs, ind, dt, b, rf) ==
    /\ Len(rf) = 6
    /\ ind <=> (dt[1] \/ dt[2] \/ dt[3] \/ dt[4] \/ BmiTrigger(b, rf))
    /\ ind <=> Len(rs) > 0
    /\ rs = ExpectedDirect(dt, 1)
              \o (IF BmiTrigger(b, rf) THEN <<ExpectedBmiReason(rf)>> ELSE <<>>)

\* C13: Step 1 is indicated exactly when one of the five triggers holds (FPG in
\* [100,126), HbA1c in [5.7,6.4], gestational diabetes, pancreatitis, or BMI at
\* the threshold with a risk factor), exactly when reasons is non-empty; each
\* trigger gives exactly one reason, and the BMI reason lists the label of every
\* risk factor that holds and of no other.
C13_IndicatedIffTrigger ==
    IndicationContract(reasons, ogttIndication.indicated, DirectTriggers, bmi, riskFactors)

\* C13 witness: all five triggers hold; the BMI reason lists two of six labels
C13_Witness_AllTriggers ==
    /\ Len(reasons) = 5
    /\ reasons[5] = "BMI >=25 kg/m2 plus risk factor(s): MASLD, PCOS"

\* the BMI rule's reason is among rs
HasBmiReason(rs) == \E i \in 1..Len(rs) : SubSeq(rs[i], 1, 3) = "BMI"

EthnicityThreshold(b, dt, rs) ==
    /\ bmiThreshold = (IF ethnicity = "Asian American" THEN 23 ELSE 25)
    /\ (ethnicity # "Asian American" /\ ~IsUndefined(b) /\ Ge(b, Num(23)) /\ Lt(b, Num(25)))
          => ~HasBmiReason(rs)
    /\ (b = Num(24) /\ hasMASLD /\ ~(dt[1] \/ dt[2] \/ dt[3] \/ dt[4]))
          => /\ ethnicity = "Asian American" => Len(rs) > 0 /\ HasBmiReason(rs)
             /\ ethnicity = "White" => rs = <<>>
             /\ (Len(rs) > 0) <=> (ethnicity = "Asian American")

\* C14: the BMI threshold is 23 for "Asian American" and 25 otherwise (also when
\* unselected): with BMI 24, MASLD and no direct trigger, Step 1 is indicated for
\* "Asian American" and not for "White"; for a non-Asian ethnicity a BMI in
\* [23,25) never triggers the BMI rule.
C14_EthnicityThreshold == EthnicityThreshold(bmi, DirectTriggers, reasons)

\* C14 witness: BMI 24 with MASLD and no direct trigger, "Asian American": indicated
C14_Witness_Asian24 ==
    /\ bmi = Num(24) /\ hasMASLD /\ ethnicity = "Asian American"
    /\ ~hxGDM /\ ~hxPancreatitis /\ Len(reasons) = 1 /\ HasBmiReason(reasons)

\* ------------------------------------------------- Step 4 claims

\* glucose values that switch the high-risk rules on and off, ages in and between
\* the bands, weights
NextStep4 ==
    \/ Free(\E v \in {<<>>, <<"1", "1", "0">>} : setG0(v))
    \/ Free(\E v \in {<<>>, <<"1", "8", "0">>} : setG60(v))
    \/ Free(\E v \in {<<>>, <<"1", "5", "0">>} : setG120(v))
    \/ Free(\E v \in {<<>>, Txt, <<"3", "5">>, <<"4", "5">>, <<"4", "9", ".", "5">>, <<"5", "5">>}
              : setAge(v))
    \/ Free(\E v \in {<<>>, Txt, <<"1", "0", "0">>, <<"9", "2">>} : setWeightKg(v))

SpecStep4 == Init /\ [][NextStep4]_vars

BandDecisions ==
    { "Age <40 years: Not a candidate (high risk).",
      "Age 40-49 years: Consider only if able to reverse high-risk prognostic markers with weight loss on repeat OGTT.",
      "Age >=50 years: Can be accepted after risk mitigation with 5-10% weight loss." }

\* the Step 4 result s4 against the Step 3 verdict hr
Step4Gate(s4, hr) ==
    /\ s4.applies <=> hr
    /\ (hr /\ IsUndefined(nAge))
          => /\ s4.decision = "High-risk group: enter age to determine eligibility recommendation."
             /\ s4.decision \notin BandDecisions
    /\ ~hr => /\ s4.decision \notin BandDecisions
              /\ ~s4.weightLoss.defined
    /\ (hr /\ ~IsUndefined(nAge)) => s4.decision \in BandDecisions

\* C15: Step 4 applies exactly when Step 3 is high-risk; high-risk with the age
\* absent gives the insufficient-data message and none of the three age-band
\* decisions; not high-risk gives no age-band decision and no weight-loss
\* target, whatever the age and weight.
C15_Step4Gate == Step4Gate(step4, highRisk)

\* C15 witness: high-risk with the age missing and a weight entered
C15_Witness_AgeMissing ==
    /\ highRisk /\ IsUndefined(nAge) /\ nWeight = Num(100)
    /\ step4.applies /\ step4.decision \notin BandDecisions

\* the weight-loss target of the Step 4 result s4
Step4Target(s4, hr) ==
    (hr /\ ~IsUndefined(nAge))
       => IF IsUndefined(nWeight) THEN ~s4.weightLoss.defined
          ELSE /\ s4.weightLoss.defined
               /\ s4.weightLoss.lowKg = Div(Mul(nWeight, Num(5)), Num(100))
               /\ s4.weightLoss.highKg = Div(Mul(nWeight, Num(10)), Num(100))
               /\ Le(s4.weightLoss.lowKg, s4.weightLoss.highKg)

\* C16: high-risk with the age known, the weight-loss target is reported exactly
\* when the weight is known, in every age band (also under 40), and is
\* [weight x 0.05, weight x 0.10] with low <= high.
C16_Step4Target == Step4Target(step4, highRisk)

\* C16 witness: high-risk, age 35 (not a candidate), weight 100 kg: target 5..10 kg
C16_Witness_Under40 ==
    /\ highRisk /\ nAge = Num(35) /\ nWeight = Num(100)
    /\ step4.decision = "Age <40 years: Not a candidate (high risk)."
    /\ step4.weightLoss = [defined |-> TRUE, lowKg |-> Num(5), highKg |-> Num(10)]

\* ------------------------------------------------- baseline comparison claims

\* weights and glucose values that change the flag list, captures and clears
NextCmp ==
    \/ Free(\E v \in {<<>>, Txt, <<"1", "0", "0">>, <<"9", "2">>} : setWeightKg(v))
    \/ Free(\E v \in {<<>>, <<"1", "1", "0">>} : setG0(v))
    \/ Free(\E v \in {<<>>, <<"1", "8", "0">>} : setG60(v))
    \/ Free(\E v \in {<<>>, <<"1", "5", "0">>} : setG120(v))
    \/ Free(\E ts \in 1..MaxClock : saveBaseline(ts))
    \/ Free(clearBaseline)

SpecCmp == Init /\ [][NextCmp]_vars

\* the comparison cmp against the stored baseline b and the current verdict hr
CompareContract(cmp, b, hr) ==
    b.set =>
       /\ cmp.set
       /\ IF IsUndefined(b.weightKg) \/ IsUndefined(nWeight) THEN IsUndefined(cmp.wlPct)
          ELSE /\ cmp.wlPct = Div(Mul(Sub(b.weightKg, nWeight), Num(100)), b.weightKg)
               /\ Gt(cmp.wlPct, Num(0)) <=> Lt(nWeight, b.weightKg)
       /\ (b.weightKg = Num(100) /\ nWeight = Num(92)) => cmp.wlPct = Num(8)
       /\ cmp.reversedHighRisk <=> (b.highRisk /\ ~hr)
       /\ cmp.newHighRisk <=> (~b.highRisk /\ hr)

\* C17: while a baseline exists, the comparison's weight-change percent is
\* (baselineWeight - currentWeight) / baselineWeight x 100, positive exactly for
\* a loss, 8 for 100 kg -> 92 kg, absent if either weight is absent;
\* reversedHighRisk is baseline.highRisk and not highRisk, newHighRisk is
\* highRisk and not baseline.highRisk, highRisk being Step 3 of the current inputs.
C17_ComparisonContract == CompareContract(comparison, baseline, SomeDanger(flags))

\* C17 witness: captured at 100 kg and high-risk, now 92 kg and not high-risk
C17_Witness_Reversed ==
    /\ baseline.set /\ baseline.weightKg = Num(100) /\ nWeight = Num(92)
    /\ baseline.highRisk /\ ~highRisk
    /\ comparison.wlPct = Num(8)
    /\ comparison.reversedHighRisk /\ ~comparison.newHighRisk

\* the elements of a sequence
Elems(xs) == {xs[i] : i \in 1..Len(xs)}

NoRepeat(xs) == \A i, j \in 1..Len(xs) : xs[i] = xs[j] => i = j

\* the rendering of flag f: its label, with the figure in brackets if it has one
Rendered(f) == IF f.exactRisk = noText THEN f.label ELSE f.label \o " [" \o f.exactRisk \o "]"

\* added and removed of cmp are the differences of the label sets base and now
FlagDiffContract(cmp, base, now) ==
    /\ Elems(cmp.added) = now \ base /\ NoRepeat(cmp.added)
    /\ Elems(cmp.removed) = base \ now /\ NoRepeat(cmp.removed)
    /\ Elems(cmp.added) \cap Elems(cmp.removed) = {}
    /\ (cmp.added = <<>> /\ cmp.removed = <<>>) <=> (base = now)

\* C18: added and removed are the set differences over the rendered flag labels
\* (label plus bracketed exact risk when the flag has one): added are the
\* current labels not in the baseline, removed the baseline labels not current;
\* they are disjoint, and both empty exactly when the two label sets are equal.
C18_FlagSetDifference ==
    baseline.set =>
       FlagDiffContract(comparison, Elems(baseline.flags), {Rendered(f) : f \in Elems(flags)})

\* C18 witness: the 1-hour flag alone captured, now IFG and IGT: the combined
\* rule (with its figure), IFG and IGT are added, the 1-hour flag is removed
C18_Witness_AddedAndRemoved ==
    /\ baseline.set
    /\ comparison.added = << "Combined IFG and IGT [>50%]",
                             "IFG present (FPG 100-125 mg/dL)",
                             "IGT present (2-hour PG 140-199 mg/dL)" >>
    /\ comparison.removed = << "1-hour PG >155 mg/dL" >>

\* a step that is a capture: the slot receives the values derived from the
\* inputs before the step, whole, and the inputs stay
IsCapture ==
    /\ baseline'.set
    /\ baseline'.timestamp \in 1..MaxClock
    /\ baseline' = [set |-> TRUE, timestamp |-> baseline'.timestamp,
                    weightKg |-> nWeight, bmi |-> bmi, metsPresent |-> present,
                    highRisk |-> highRisk, exactRisk |-> exactRisk,
                    flags |-> [i \in 1..Len(flags) |-> Rendered(flags[i])],
                    matsuda |-> matsuda, homaIR |-> homaIR, igi |-> igi,
                    stumvoll1 |-> stumvoll1, pgAuc |-> pgAucWeighted]
    /\ UNCHANGED inputVars

\* C19: the baseline slot is empty initially; it becomes non-empty only by a
\* capture and empty again only by a clear; an input edit never changes the
\* stored snapshot; every change of a non-empty slot is a capture, which stores
\* the weight, BMI, metS presence, highRisk, exactRisk, flag labels and five
\* indices of the inputs at that moment, replacing the whole snapshot; a
\* comparison exists exactly when the slot is non-empty.
C19_BaselineLifecycle ==
    /\ ~baseline.set
    /\ [](comparison.set <=> baseline.set)
    /\ [][/\ inputVars' # inputVars => baseline' = baseline
          /\ (baseline' # baseline /\ baseline'.set) => IsCapture
          /\ (baseline.set /\ ~baseline'.set) => (baseline' = null /\ UNCHANGED inputVars)]_vars

\* C19 witness: a snapshot taken at the second clock reading is kept while the
\* weight and the flags have moved on
C19_Witness_KeptAfterEdit ==
    /\ baseline.set /\ baseline.timestamp = 2
    /\ baseline.weightKg = Num(100) /\ nWeight = Num(92)
    /\ baseline.flags # <<>> /\ flags = <<>>
    /\ comparison.set

\* ------------------------------------------------- recomputation claims

\* what the useMemo callbacks return for the current inputs, in the order of the
\* calls: bmi, ogttIndication, metabolicSyndrome, indices, risk, step4, summary
FreshValues ==
    <<bmi, ogttIndication, metabolicSyndrome, indices, risk, step4, summary>>

\* useMemo(callback, deps) as call i of a render that found the cells old: the
\* stored value is kept when every entry of deps equals the stored entry, and
\* the callback runs otherwise (always in the first render)
UseMemo(old, i, deps, value) ==
    CHOOSE cell \in { IF old # <<>> /\ old[i][1] = d THEN <<d, old[i][2], TRUE>>
                      ELSE <<d, value, FALSE>> : d \in {deps} } : TRUE

\* the cells a render leaves: the first six calls, then summary, whose
\* callback reads the values the six calls returned
RenderCells(old) ==
    CHOOSE cells \in
        { Append(six, UseMemo(old, 7, summaryDeps,
                              summaryOf(toolName, nAge, sex, ethnicity, six[1][2],
                                        six[2][2], six[3][2], six[5][2], six[6][2],
                                        six[4][2]))) :
            six \in { << UseMemo(old, 1, bmiDeps, bmi),
                         UseMemo(old, 2, ogttIndicationDeps, ogttIndication),
                         UseMemo(old, 3, metabolicSyndromeDeps, metabolicSyndrome),
                         UseMemo(old, 4, indicesDeps, indices),
                         UseMemo(old, 5, riskDeps, risk),
                         UseMemo(old, 6, step4Deps, step4) >> } } : TRUE

\* a handler called between renders: its state update schedules a render
Update(A) == pc = "idle" /\ A /\ pc' = "render" /\ UNCHANGED <<events, memo>>

\* the render a state update causes
Render ==
    /\ pc = "render"
    /\ memo' = RenderCells(memo)
    /\ pc' = "idle"
    /\ UNCHANGED <<baseline, inputVars, events>>

NextMemo ==
    \/ Update(\E v \in {<<>>, <<"1", "0", "0">>} : setWeightKg(v))
    \/ Update(\E v \in {<<>>, <<"4", "5">>} : setAge(v))
    \/ Update(\E v \in {<<>>, <<"1", "1", "0">>} : setG0(v))
    \/ Update(\E v \in {<<>>, <<"1", "4", "0">>} : setG90(v))
    \/ Update(\E ts \in {1} : saveBaseline(ts))
    \/ Update(clearBaseline)
    \/ Render

SpecMemo == Init /\ [][NextMemo]_vars

\* every value of cells is the value in fresh at the same place
NoStaleValue(cells, fresh) == \A i \in 1..Len(cells) : cells[i][2] = fresh[i]

\* C20: between renders, every memoized value (BMI, the Step 1 and Step 2
\* results, the indices, the Step 3 and Step 4 results, the summary text) is what
\* its callback returns for the current inputs, whichever values earlier renders
\* kept, whatever the baseline slot holds and in whatever order the inputs came
C20_NoStaleValue == pc = "idle" => NoStaleValue(memo, FreshValues)

\* a baseline is stored and the last render, after an edit of the weight,
\* recomputed BMI, the indices and the summary and kept the metabolic syndrome
\* result and the Step 3 result
C20_Witness_PartlyRecomputed ==
    /\ pc = "idle" /\ memo # <<>> /\ baseline.set
    /\ ~IsUndefined(ng90) /\ nWeight = Num(100)
    /\ ~memo[1][3] /\ ~memo[4][3] /\ ~memo[7][3]
    /\ memo[3][3] /\ memo[5][3]

\* ------------------------------------------------- age bands of Step 4

\* the decision of the Step 4 result s4 against the band of the age a, the
\* Step 3 verdict being hr
AgeBandContract(s4, hr, a) ==
    (hr /\ ~IsUndefined(a))
       => /\ s4.decision \in BandDecisions
          /\ s4.decision = "Age <40 years: Not a candidate (high risk)." <=> Lt(a, Num(40))
          /\ s4.decision = "Age 40-49 years: Consider only if able to reverse high-risk prognostic markers with weight loss on repeat OGTT."
                <=> (Ge(a, Num(40)) /\ Lt(a, Num(50)))
          /\ s4.decision = "Age >=50 years: Can be accepted after risk mitigation with 5-10% weight loss."
                <=> Ge(a, Num(50))

\* C21: high-risk with the age known, Step 4 issues exactly one of the three
\* decisions, by the band of the age: under 40, 40 up to (not including) 50, and
\* 50 or more; the "age >=50" decision is issued only for a normalized age >= 50,
\* also for an age that is no whole number.
C21_AgeBands == AgeBandContract(step4, highRisk, nAge)


\* ------------------------------------------------- hypertension in Step 1

\* the blood-pressure inputs of Step 1, with the weight (BMI equals the weight in
\* kg at the lower bound of the height), one other risk factor and one direct
\* trigger
NextHtn ==
    \/ Free(\E v \in {<<>>, <<"1", "0", "0">>} : setWeightKg(v))
    \/ Free(\E v \in {<<>>, Txt, <<"1", "2", "0">>, <<"1", "3", "5">>} : setSbp(v))
    \/ Free(\E v \in {<<>>, Txt, <<"7", "0">>, <<"8", "2">>} : setDbp(v))
    \/ Free(\E v \in BOOLEAN : setOnBPtx(v))
    \/ Free(\E v \in BOOLEAN : setHasMASLD(v))
    \/ Free(\E v \in {<<>>, <<"1", "1", "0">>} : setG0(v))

SpecHtn == Init /\ [][NextHtn]_vars

\* systolic s, diastolic d and treatment tx make the hypertension risk factor
HypertensionFactor(s, d, tx) ==
    \/ tx
    \/ (~IsUndefined(s) /\ Ge(s, Num(130)))
    \/ (~IsUndefined(d) /\ Ge(d, Num(80)))

\* the risk factor rf[2] and the Step 1 result oi agree with the blood pressure:
\* with BMI at the threshold (mb), no direct trigger (dt) and no other risk
\* factor, Step 1 is indicated exactly when the hypertension factor holds
HypertensionContract(rf, oi, mb, dt, s, d, tx) ==
    /\ rf[2].ok <=> HypertensionFactor(s, d, tx)
    /\ (mb /\ \A i \in 1..4 : ~dt[i]) /\ (\A i \in {1, 3, 4, 5, 6} : ~rf[i].ok)
          => (oi.indicated <=> HypertensionFactor(s, d, tx))

NextGate ==
    \/ Free(\E v \in {<<>>, Txt, <<"9", "5">>, <<"1", "1", "0">>, <<"1", "3", "0">>} : setG0(v))
    \/ Free(\E v \in {<<>>, Txt, <<"1", "3", "0">>, <<"1", "5", "0">>, <<"2", "1", "0">>} : setG120(v))
    \/ Free(\E v \in {<<>>, <<"1", "8", "0">>} : setG60(v))
    \/ Free(\E v \in {<<>>, <<"1", "5", "0">>} : setG30(v))
    \/ Free(\E v \in {<<>>, <<"1", "0">>} : setI0(v))
    \/ Free(\E v \in {<<>>, <<"6", "0">>} : setI30(v))
    \/ Free(\E v \in {<<>>, <<"6", ".", "2">>} : setA1c(v))
    \/ Free(\E v \in {<<>>, <<"1", "6", "0">>} : setTg(v))
    \/ Free(\E v \in BOOLEAN : setOnBPtx(v))

SpecGate == Init /\ [][NextGate]_vars

\* the glucose g is absent or outside the band from lo up to (not including) hi
OutsideBand(g, lo, hi) == IsUndefined(g) \/ Lt(g, Num(lo)) \/ Ge(g, Num(hi))

\* the Step 3 verdict hr and the Step 4 result s4 against the glucose findings
GlucoseGate(hr, s4, ifg, igt, ohh, f, t) ==
    /\ hr => (ifg \/ igt)
    /\ hr => (ohh \/ (ifg /\ igt))
    /\ (OutsideBand(f, 100, 126) /\ OutsideBand(t, 140, 200)) => (~hr /\ ~s4.applies)

\* C23: a high-risk verdict needs impaired fasting glucose or impaired glucose
\* tolerance, and moreover a high 1-hour glucose or both impairments; with the
\* fasting glucose outside [100,126) or absent and the 2-hour glucose outside
\* [140,200) or absent, Step 3 is not high-risk and Step 4 does not apply.
C23_GlucoseGate == GlucoseGate(highRisk, step4, IFG, IGT, oneHourHigh, ng0, ng120)

\* both glucose values in the diabetic range, with a high 1-hour glucose, HbA1c
\* 6.2, a low insulinogenic index and the metabolic syndrome: not high-risk
C23_Witness_DiabeticRange ==
    /\ ng0 = Num(130) /\ ng120 = Num(210)
    /\ oneHourHigh /\ a1cHigh /\ igiLow /\ metS
    /\ ~highRisk /\ ~step4.applies


\* ------------------------------------------------- comparison right after a capture

\* the comparison cmp reports no change, the current weight being w
NoChange(cmp, w) ==
    /\ cmp.set
    /\ cmp.added = <<>> /\ cmp.removed = <<>>
    /\ ~cmp.reversedHighRisk /\ ~cmp.newHighRisk
    /\ IF IsUndefined(w) THEN IsUndefined(cmp.wlPct) ELSE cmp.wlPct = Num(0)

\* the stored snapshot b is what a capture of the current inputs stores
FreshCapture(b) == b.set /\ b = Snapshot(b.timestamp)

\* C24: with the inputs as they were at the capture, the comparison reports no
\* change: nothing added, nothing removed, reversedHighRisk and newHighRisk both
\* false, and a weight change of 0 per cent when the weight is known, absent
\* otherwise; reversedHighRisk and newHighRisk are never both true.
C24_NoChangeAfterCapture ==
    /\ FreshCapture(baseline) => NoChange(comparison, nWeight)
    /\ baseline.set => ~(comparison.reversedHighRisk /\ comparison.newHighRisk)

\* C24 witness: captured high-risk at 100 kg with flags that carry a figure, and
\* nothing edited since
C24_Witness_CapturedHighRisk ==
    /\ FreshCapture(baseline)
    /\ nWeight = Num(100) /\ highRisk /\ exactRisk = ">50%"
    /\ comparison.wlPct = Num(0) /\ comparison.added = <<>> /\ comparison.removed = <<>>


\* ------------------------------------------------- weight-loss target claims

\* the text t contains the text pat
Contains(t, pat) ==
    \E i \in 1..(Len(t) - Len(pat) + 1) : SubSeq(t, i, i + Len(pat) - 1) = pat

\* the Step 4 result s4 and the summary text against the verdict hr, the age a
\* and the weight w
TargetOnlyWhen(s4, text, hr, a, w) ==
    /\ s4.weightLoss.defined => (hr /\ ~IsUndefined(a) /\ ~IsUndefined(w))
    /\ (hr /\ IsUndefined(a)) => ~s4.weightLoss.defined
    /\ Contains(text, "Weight-loss target") => (s4.applies /\ s4.weightLoss.defined)

\* C25: a weight-loss target is reported only when Step 3 is high-risk and the
\* age and the weight are known; high-risk with the age absent reports no target
\* even if the weight is known; the summary text has a weight-loss line only
\* when Step 4 applies and a target exists.
C25_TargetOnlyWhen == TargetOnlyWhen(step4, summary, highRisk, nAge, nWeight)

\* C25 witness: high-risk, weight 100 kg, age not a number: Step 4 applies, no
\* target, no weight-loss line in the summary
C25_Witness_AgeAbsentWeightKnown ==
    /\ highRisk /\ IsUndefined(nAge) /\ nWeight = Num(100)
    /\ step4.applies /\ ~step4.weightLoss.defined
    /\ ~Contains(summary, "Weight-loss target")
    /\ Contains(summary, "Step 4 (Age-based recommendation): High-risk group")

====
